---------------------------- MODULE Spec2Model ----------------------------
(***************************************************************************)
(* A model of the RPMsg socket transport, net/rpmsg/rpmsg_sockif.c.        *)
(*                                                                         *)
(* Connections come in pairs joined by the substrate: an odd side s is a   *)
(* client's connection and s + 1 the child connection the server makes     *)
(* for it.  The substrate carries frames in order: net[s] holds the frames *)
(* in flight towards side s and hands them one at a time to the callbacks  *)
(* of side s.  On every side one thread may be inside sendmsg and one      *)
(* inside recvmsg; the callbacks run in a context of their own.  A step of *)
(* the model is a stretch of code that runs under one lock, or one call    *)
(* into the substrate.                                                     *)
(***************************************************************************)
EXTENDS Integers, Sequences, FiniteSets, TLC

VARIABLES
  cfg,    \* the build: RX buffer size, TX payload buffer size, socket type
  conn,   \* conn[s]: struct rpmsg_socket_conn_s of side s
  net,    \* net[s]: frames in flight towards side s, oldest first
  cb,     \* cb[s]: the substrate's callback context of side s
  snd,    \* snd[s]: the thread of side s inside sendmsg
  rcv,    \* rcv[s]: the thread of side s inside recvmsg
  app,    \* app[s]: what the application of side s has been told so far
  srv,    \* the listening socket's connection, its accept queue, and the
          \* name announcements of clients the substrate has in hand for it
  acc,    \* acc[t]: thread t of the server's process, inside accept or not
  cli     \* cli[c]: the thread of client side c inside connect

vars == <<cfg, conn, net, cb, snd, rcv, app, srv, acc, cli>>

(***************************************************************************)
(* Bounds of the model.                                                    *)
(***************************************************************************)
\* The counters are uint32_t in the code; the model keeps PosBits bits of
\* them, far more than the bytes a run can carry, so that an unsigned
\* underflow wraps to a huge value exactly as in the code.
PosBits == 5
\* CONFIG_NET_RPMSG_RXBUF_SIZE of the stream runs.
StreamRxBuf == 2
\* Payload bytes a TX buffer of the substrate can hold in the stream runs.
StreamTxPayload == 2
\* Bytes the application of side 1 / side 2 sends in total in a stream run:
\* side 1 streams to side 2, which sends one byte back.
MaxSend1 == 6
MaxSend2 == 1
\* Bytes after which the application of side 1 stops calling recvmsg in a
\* stream run; that of side 2 reads until it has all the bytes side 1 sends.
MaxRecv1 == 0
\* Longest iovec given to one sendmsg, longest user buffer given to recvmsg.
MaxMsg == 2
MaxRecvLen == 2
\* The datagram runs: the longest payload that fits the peer's window, and
\* the datagrams side 1 sends in total.
MaxDgramLen == 2
MaxDgrams == 2
\* CONFIG_NET_RPMSG_NPOLLWAITERS: the poll slots of a connection.
NPollWaiters == 2
\* crefs is uint16_t in the code; the model keeps RefBits bits of it.
RefBits == 2

(***************************************************************************)
(* Program constants.                                                      *)
(***************************************************************************)
RPMSG_SOCKET_CMD_SYNC == 1
RPMSG_SOCKET_CMD_DATA == 2
\* sizeof(struct rpmsg_socket_data_s): three packed uint32_t
HDR == 12
\* sizeof(uint32_t): the length prefix of a datagram
LENPFX == 4
OK == 0
EINTR == -4
EAGAIN == -11
EINVAL == -22
EFBIG == -27
ECONNRESET == -104
ENOPROTOOPT == -92
EISCONN == -106
EINPROGRESS == -115
ENOTCONN == -107
\* sizeof(struct ucred): pid, uid and gid
UCRED_SIZE == 12

Sides == DOMAIN conn
Peer(s) == IF s % 2 = 1 THEN s + 1 ELSE s - 1

\* The threads in sendmsg are the indices of snd: thread t works on the
\* socket of side Side(t), each side has the thread of its own number, and
\* sendlock of side s is held by the thread between the fill and the send.
Side(t) == ((t - 1) % Cardinality(DOMAIN conn)) + 1
Senders == DOMAIN snd
SendLocked(s) == \E t \in Senders : Side(t) = s /\ snd[t].pc = "xmit"

\* A run whose byte counts need more bits names its width in cfg.posbits.
Wrap == IF "posbits" \in DOMAIN cfg THEN 2 ^ cfg.posbits ELSE 2 ^ PosBits
U32(x) == x % Wrap
RefWrap == 2 ^ RefBits
U16(x) == x % RefWrap
MIN(a, b) == IF a < b THEN a ELSE b
MAX(a, b) == IF a > b THEN a ELSE b

Take(q, n) == SubSeq(q, 1, n)
Drop(q, n) == SubSeq(q, n + 1, Len(q))

\* The bytes number a+1 .. a+n of an application's stream: byte k carries k.
Bytes(a, n) == [i \in 1..n |-> a + i]

(***************************************************************************)
(* Kernel primitives: the circular buffer and the semaphores.              *)
(***************************************************************************)
circbuf_used(c) == Len(c.recvbuf)
circbuf_space(c) == c.bufsize - Len(c.recvbuf)
\* circbuf_write stores what fits and drops the rest.
circbuf_write(c, data) == c.recvbuf \o Take(data, MIN(Len(data), circbuf_space(c)))

\* rpmsg_socket_post: post only when the count is below 1.
rpmsg_socket_post(count) == IF count < 1 THEN count + 1 ELSE count

\* !conn->ept.rdev || conn->unbind
EptDead_alt(c) == ~c.rdev
EptDead(c) == ~c.rdev \/ c.unbind

rpmsg_socket_get_space_alt(c) ==
  c.sendsize - (IF c.sendpos >= c.ackpos THEN c.sendpos - c.ackpos ELSE 0)
rpmsg_socket_get_space(c) == U32(c.sendsize - U32(c.sendpos - c.ackpos))

\* The poll slots conn->fds: a slot in use holds the events its waiter asked
\* for and the events it has been notified of.  poll_notify gives every
\* waiter those of the events it asked for, and POLLHUP in any case.
\* pc is "setup" between the binding of the slot and the notification of
\* the initial events, "wait" after it.
NoFd ==
  [used |-> FALSE, pc |-> "free", events |-> {}, revents |-> {}, seen |-> {}]
NoFds == [i \in 1..NPollWaiters |-> NoFd]

poll_notify(fds, eventset) ==
  [i \in DOMAIN fds |->
     IF fds[i].used
       THEN [fds[i] EXCEPT !.revents =
               @ \cup (eventset \cap (fds[i].events \cup {"POLLHUP"}))]
       ELSE fds[i]]

rpmsg_socket_poll_notify(c, eventset) ==
  [c EXCEPT !.fds = poll_notify(@, eventset)]

(***************************************************************************)
(* Frames.                                                                 *)
(***************************************************************************)
\* A SYNC carries pid, uid and gid; a struct ucred zeroed by the allocation.
NoCred == [pid |-> 0, uid |-> 0, gid |-> 0]
SyncMsg(size, cred) ==
  [cmd |-> RPMSG_SOCKET_CMD_SYNC, size |-> size, pos |-> 0, len |-> 0,
   data |-> <<>>, pid |-> cred.pid, uid |-> cred.uid, gid |-> cred.gid]
DataMsg(pos, len, data) ==
  [cmd |-> RPMSG_SOCKET_CMD_DATA, size |-> 0, pos |-> pos, len |-> len,
   data |-> data, pid |-> 0, uid |-> 0, gid |-> 0]
NoMsg == DataMsg(0, 0, <<>>)

\* The credentials of the process that owns side s: what nxsched_getpid,
\* getuid and getgid return in it.
Cred(s) == [pid |-> 10 + s, uid |-> 20 + s, gid |-> 30 + s]

(***************************************************************************)
(* Initial state of a run: both endpoints exist, the receive buffers have  *)
(* their size, and each side's SYNC is in flight to the other.             *)
(***************************************************************************)
\* life tells whether the structure is allocated: "none" before
\* rpmsg_socket_alloc, "live", "freed" after rpmsg_socket_free.  reg holds
\* the callbacks registered with the substrate for the connection, nept
\* counts the live endpoints made on conn->ept, sentpos is the largest pos
\* the substrate has been given in a DATA frame of the connection.
InitConn(size) ==
  [life |-> "live", unbind |-> FALSE, rdev |-> TRUE, connected |-> FALSE,
   backlog |-> 0, cred |-> NoCred, reg |-> {}, fds |-> NoFds, nept |-> 1,
   sentpos |-> 0,
   sendsize |-> 0, sendpos |-> 0, ackpos |-> 0, recvpos |-> 0, lastpos |-> 0,
   recvdata |-> FALSE, recvlen |-> 0, recvbuf |-> <<>>, bufsize |-> size,
   sendsem |-> 0, recvsem |-> 0]

\* The listening socket after socket() and bind(): no endpoint of its own
\* (listen creates none), one reference, nothing queued.  queue is the
\* chain server->next; nsq the name announcements waiting for a listener;
\* pollin counts the POLLIN notifications; rejected remembers the clients
\* turned away; handles counts the socket handles the framework has open
\* on the connection.
InitSrv ==
  [life |-> "live", rdev |-> FALSE, listening |-> FALSE, backlog |-> 0,
   crefs |-> 1, handles |-> 1, reg |-> {}, sendsem |-> 0, recvsem |-> 0,
   queue |-> <<>>, nsq |-> <<>>, pollin |-> 0, rejected |-> {},
   fds |-> NoFds]

\* rpmsg_socket_ns_bound: msg.size = circbuf_size(&conn->recvbuf)
SyncSize_alt(c) == 0
SyncSize(c) == c.bufsize

\* A thread outside sendmsg / recvmsg, and one about to return ret.
SndIdle ==
  [pc |-> "idle", buf |-> <<>>, written |-> 0, nonblock |-> FALSE,
   msg |-> NoMsg, ret |-> OK]
SndRet(ret) == [SndIdle EXCEPT !.pc = "ret", !.ret = ret]
RcvIdle ==
  [pc |-> "idle", len |-> 0, ubuf |-> <<>>, ret |-> OK, pos |-> 0]
RcvOut(ret, ubuf) == [RcvIdle EXCEPT !.pc = "out", !.ret = ret, !.ubuf = ubuf]

\* app[s]: sent, the payload bytes sendmsg has accepted; dsent, the
\* datagrams sendmsg has accepted; got, what recvmsg has handed back (the
\* bytes of a stream; of a datagram socket one entry for every call that
\* delivered a datagram); acks, the standalone acknowledgements the side
\* has transmitted.
InitApp == [sent |-> 0, dsent |-> <<>>, got |-> <<>>, acks |-> 0]

InitCommon(type, rxbuf, txpayload, maxsend, maxrecv, maxdg) ==
  /\ cfg = [type |-> type, rxbuf |-> rxbuf, ipcsize |-> HDR + txpayload,
            maxsend |-> maxsend, maxrecv |-> maxrecv, maxdg |-> maxdg]
  /\ conn = [s \in {1, 2} |-> InitConn(rxbuf)]
  /\ net = [s \in {1, 2} |-> <<SyncMsg(SyncSize(InitConn(rxbuf)), Cred(Peer(s)))>>]
  /\ cb = [s \in {1, 2} |-> [pc |-> "idle", msg |-> NoMsg]]
  /\ snd = [s \in {1, 2} |-> SndIdle]
  /\ rcv = [s \in {1, 2} |-> RcvIdle]
  /\ app = [s \in {1, 2} |-> InitApp]
  /\ srv = InitSrv
  /\ acc = <<>>
  /\ cli = <<>>

Init ==
  InitCommon("STREAM", StreamRxBuf, StreamTxPayload, <<MaxSend1, MaxSend2>>,
             <<MaxRecv1, MaxSend1>>, <<0, 0>>)


(***************************************************************************)
(* sendmsg.                                                                *)
(***************************************************************************)
\* The return of a send path: "return written ? written : ret".
SendReturn(s, written, ret) ==
  /\ snd' = [snd EXCEPT ![s] = SndRet(IF written > 0 THEN written ELSE ret)]
  /\ app' = [app EXCEPT ![Side(s)].sent = @ + written]

\* sendmsg has returned to the application.
SendDone(s) ==
  /\ snd[s].pc = "ret"
  /\ snd' = [snd EXCEPT ![s] = SndIdle]
  /\ UNCHANGED <<srv, acc, cli, cfg, conn, net, cb, rcv, app>>

\* rpmsg_socket_send_single: total = len + sizeof(*msg) + sizeof(uint32_t)
DgramTotal(n) == U32(n + HDR + LENPFX)

\* rpmsg_socket_sendmsg with msg_name == NULL, up to the dispatch on the
\* type, and the first test of rpmsg_socket_send_single.
SendMsg(s, n, nonblock) ==
  /\ conn[Side(s)].life = "live"
  /\ snd[s].pc = "idle"
  /\ cfg.type = "STREAM" => app[Side(s)].sent + n <= cfg.maxsend[Side(s)]
  /\ cfg.type = "DGRAM" => Len(app[Side(s)].dsent) < cfg.maxdg[Side(s)]
  /\ IF ~conn[Side(s)].connected
       THEN snd' = [snd EXCEPT ![s] = SndRet(ENOTCONN)]
       ELSE IF EptDead(conn[Side(s)])
         THEN snd' = [snd EXCEPT ![s] = SndRet(ECONNRESET)]
       ELSE IF cfg.type = "DGRAM" /\ DgramTotal(n) > conn[Side(s)].sendsize
         THEN snd' = [snd EXCEPT ![s] = SndRet(EFBIG)]
         ELSE snd' = [snd EXCEPT ![s] =
                [pc |-> "space", buf |-> Bytes(app[Side(s)].sent, n), written |-> 0,
                 nonblock |-> nonblock, msg |-> NoMsg, ret |-> OK]]
  /\ UNCHANGED <<srv, acc, cli, cfg, conn, net, cb, rcv, app>>

\* rpmsg_socket_send_continuous: the look at the send space, under sendlock.
SendSpace(s) ==
  /\ cfg.type = "STREAM"
  /\ snd[s].pc = "space"
  /\ LET block == MIN(Len(snd[s].buf) - snd[s].written,
                      rpmsg_socket_get_space(conn[Side(s)]))
     IN IF block = 0
          THEN IF snd[s].nonblock
                 THEN SendReturn(s, snd[s].written, EAGAIN)
                 ELSE /\ snd' = [snd EXCEPT ![s].pc = "wait"]
                      /\ app' = app
          ELSE /\ snd' = [snd EXCEPT ![s].pc = "fill"]
               /\ app' = app
  /\ UNCHANGED <<srv, acc, cli, cfg, conn, net, cb, rcv>>

\* net_sem_timedwait(&conn->sendsem) returns because the semaphore was posted.
SendSemWait(s) ==
  /\ snd[s].pc = "wait"
  /\ conn[Side(s)].sendsem > 0
  /\ conn' = [conn EXCEPT ![Side(s)].sendsem = @ - 1]
  /\ IF EptDead(conn[Side(s)])
       THEN SendReturn(s, snd[s].written, ECONNRESET)
       ELSE /\ snd' = [snd EXCEPT ![s].pc = "space"]
            /\ app' = app
  /\ UNCHANGED <<srv, acc, cli, cfg, net, cb, rcv>>

\* rpmsg_socket_send_continuous: rpmsg_get_tx_payload_buffer gives no
\* buffer on an endpoint that was destroyed; with a TX buffer in hand, under
\* sendlock, the frame is filled: its pos is conn->recvpos as read now.
StreamFrame(c, buf, written, ipcsize) ==
  LET block == MIN(MIN(Len(buf) - written, rpmsg_socket_get_space(c)),
                   ipcsize - HDR)
  IN DataMsg(c.recvpos, block, SubSeq(buf, written + 1, written + block))

SendFill(s) ==
  /\ cfg.type = "STREAM"
  /\ snd[s].pc = "fill"
  /\ ~SendLocked(Side(s))
  /\ IF ~conn[Side(s)].rdev
       THEN SendReturn(s, snd[s].written, EINVAL)
       ELSE LET msg == StreamFrame(conn[Side(s)], snd[s].buf, snd[s].written,
                                   cfg.ipcsize)
            IN /\ snd' = [snd EXCEPT ![s].pc = "xmit", ![s].msg = msg]
               /\ app' = app
  /\ UNCHANGED <<srv, acc, cli, cfg, conn, net, cb, rcv>>

\* "conn->lastpos = conn->recvpos" runs under sendlock, while recvmsg and
\* the callback change recvpos, and rpmsg_socket_wakeup changes lastpos,
\* under recvlock: the value stored is recvpos as it is now, or as it was
\* when the frame was filled (the load came before a change, the store
\* after).
LastposStored(s) == {conn[Side(s)].recvpos, snd[s].msg.pos}

\* Still under sendlock: lastpos takes conn->recvpos, sendpos advances, and
\* rpmsg_sendto_nocopy queues the frame; then the unlock and the loop test.
SendXmit(s) ==
  /\ cfg.type = "STREAM"
  /\ snd[s].pc = "xmit"
  /\ \E last \in LastposStored(s) :
       conn' = [conn EXCEPT ![Side(s)].lastpos = last,
                            ![Side(s)].sendpos = U32(@ + snd[s].msg.len),
                            ![Side(s)].sentpos =
                               IF EptDead(conn[Side(s)]) THEN @
                               ELSE MAX(@, snd[s].msg.pos)]
  /\ IF EptDead(conn[Side(s)])
       THEN /\ SendReturn(s, snd[s].written, EINVAL)
            /\ net' = net
       ELSE LET written == snd[s].written + snd[s].msg.len
            IN /\ net' = [net EXCEPT ![Peer(Side(s))] = Append(@, snd[s].msg)]
               /\ IF written < Len(snd[s].buf)
                    THEN /\ snd' = [snd EXCEPT ![s].pc = "space",
                                               ![s].written = written,
                                               ![s].msg = NoMsg]
                         /\ app' = app
                    ELSE SendReturn(s, written, OK)
  /\ UNCHANGED <<srv, acc, cli, cfg, cb, rcv>>

(***************************************************************************)
(* sendmsg on a datagram socket: rpmsg_socket_send_single.                 *)
(***************************************************************************)
\* A uint32_t as it lies in memory, and the value four bytes of memory hold.
LE32Bytes(x) ==
  <<x % 256, (x \div 256) % 256, (x \div 65536) % 256, (x \div 16777216) % 256>>
LE32(q) == q[1] + 256 * q[2] + 65536 * q[3] + 16777216 * q[4]

\* The look at the send space, under sendlock.
DgSendSpace(s) ==
  /\ cfg.type = "DGRAM"
  /\ snd[s].pc = "space"
  /\ IF rpmsg_socket_get_space(conn[Side(s)])
          >= U32(DgramTotal(Len(snd[s].buf)) - HDR)
       THEN snd' = [snd EXCEPT ![s].pc = "fill"]
       ELSE IF snd[s].nonblock
         THEN snd' = [snd EXCEPT ![s] = SndRet(EAGAIN)]
         ELSE snd' = [snd EXCEPT ![s].pc = "wait"]
  /\ UNCHANGED <<srv, acc, cli, cfg, conn, net, cb, rcv, app>>

\* With a TX buffer in hand, under sendlock, the frame is filled: total is
\* cut to the space and to the TX buffer, len is what is left for the
\* payload, and the frame carries len as a prefix before the payload.
DgramFrame(c, buf, ipcsize) ==
  LET total == MIN(MIN(DgramTotal(Len(buf)),
                       U32(rpmsg_socket_get_space(c) + HDR)), ipcsize)
      len == U32(total - HDR - LENPFX)
  IN DataMsg(c.recvpos, len,
             Take(LE32Bytes(len) \o Take(buf, MIN(len, Len(buf))), total - HDR))

DgSendFill(s) ==
  /\ cfg.type = "DGRAM"
  /\ snd[s].pc = "fill"
  /\ ~SendLocked(Side(s))
  /\ snd' = [snd EXCEPT ![s].pc = "xmit",
                        ![s].msg = DgramFrame(conn[Side(s)], snd[s].buf,
                                              cfg.ipcsize)]
  /\ UNCHANGED <<srv, acc, cli, cfg, conn, net, cb, rcv, app>>

\* Still under sendlock: lastpos, sendpos, rpmsg_sendto_nocopy, and the
\* return "ret > 0 ? len : ret".
DgSendXmit(s) ==
  /\ cfg.type = "DGRAM"
  /\ snd[s].pc = "xmit"
  /\ \E last \in LastposStored(s) :
       conn' = [conn EXCEPT ![Side(s)].lastpos = last,
                            ![Side(s)].sendpos = U32(@ + snd[s].msg.len + LENPFX),
                            ![Side(s)].sentpos =
                               IF EptDead(conn[Side(s)]) THEN @
                               ELSE MAX(@, snd[s].msg.pos)]
  /\ IF EptDead(conn[Side(s)])
       THEN /\ snd' = [snd EXCEPT ![s] = SndRet(EINVAL)]
            /\ UNCHANGED <<net, app>>
       ELSE /\ net' = [net EXCEPT ![Peer(Side(s))] = Append(@, snd[s].msg)]
            /\ snd' = [snd EXCEPT ![s] = SndRet(snd[s].msg.len)]
            /\ app' = [app EXCEPT
                  ![Side(s)].sent = @ + snd[s].msg.len,
                  ![Side(s)].dsent = Append(@, Drop(snd[s].msg.data, LENPFX))]
  /\ UNCHANGED <<srv, acc, cli, cfg, cb, rcv>>

(***************************************************************************)
(* recvmsg.                                                                *)
(***************************************************************************)
\* What recvmsg hands back: the return value and, when positive, that many
\* bytes of the user buffer.  given tells that data was handed to the caller
\* (which on a datagram socket includes an empty datagram); ulen is the
\* length of the caller's buffer.
RecvReturn(s, ret, ubuf, given, ulen) ==
  /\ rcv' = [rcv EXCEPT ![s] = RcvOut(ret, IF ret > 0 THEN Take(ubuf, ret) ELSE <<>>)]
  /\ app' = [app EXCEPT ![s].got =
        IF ~given THEN @
        ELSE IF cfg.type = "STREAM" THEN @ \o Take(ubuf, ret)
        ELSE Append(@, [data |-> Take(ubuf, ret), ulen |-> ulen])]

\* rpmsg_socket_recvmsg on a stream socket, from the entry to the first
\* unlock of recvlock.
RecvMsg(s, len, nonblock) ==
  /\ cfg.type = "STREAM"
  /\ conn[s].life = "live"
  /\ rcv[s].pc = "idle"
  /\ Len(app[s].got) < cfg.maxrecv[s]
  /\ IF ~conn[s].connected
       THEN /\ RecvReturn(s, EISCONN, <<>>, FALSE, len)
            /\ conn' = conn
       ELSE LET ret == MIN(len, circbuf_used(conn[s]))
            IN IF ret > 0
                 THEN /\ conn' = [conn EXCEPT ![s].recvbuf = Drop(@, ret),
                                              ![s].recvpos = U32(@ + ret)]
                      /\ RecvReturn(s, ret, Take(conn[s].recvbuf, ret), TRUE, len)
                 ELSE IF EptDead(conn[s])
                   THEN /\ RecvReturn(s, 0, <<>>, FALSE, len)
                        /\ conn' = conn
                   ELSE IF nonblock
                     THEN /\ RecvReturn(s, EAGAIN, <<>>, FALSE, len)
                          /\ conn' = conn
                     ELSE /\ conn' = [conn EXCEPT ![s].recvdata = TRUE,
                                                  ![s].recvlen = len,
                                                  ![s].recvsem = 0]
                          /\ rcv' = [rcv EXCEPT ![s] =
                                [pc |-> "wait", len |-> len, ubuf |-> <<>>,
                                 ret |-> OK, pos |-> 0]]
                          /\ app' = app
  /\ UNCHANGED <<srv, acc, cli, cfg, net, cb, snd>>

\* rpmsg_socket_recvmsg on a datagram socket, from the entry to the first
\* unlock of recvlock.  The first circbuf_read fills datalen from the
\* buffer; where the buffer holds fewer than four bytes the rest of datalen
\* keeps what the stack held, any byte g.  The second circbuf_read copies
\* MIN(datalen, len) bytes or what the buffer has; circbuf_skip drops the
\* rest of the datagram, but only after a positive read.
DgRecvMsg(s, len, nonblock, g) ==
  /\ cfg.type = "DGRAM"
  /\ rcv[s].pc = "idle"
  /\ IF ~conn[s].connected
       THEN /\ RecvReturn(s, EISCONN, <<>>, FALSE, len)
            /\ conn' = conn
       ELSE LET n4 == MIN(LENPFX, circbuf_used(conn[s]))
                datalen == LE32(Take(conn[s].recvbuf, n4) \o
                                [i \in 1..(LENPFX - n4) |-> g])
                buf1 == Drop(conn[s].recvbuf, n4)
                ret == IF n4 > 0 THEN MIN(MIN(datalen, len), Len(buf1)) ELSE 0
                buf2 == Drop(buf1, ret)
                buf3 == IF ret > 0 /\ datalen > ret
                          THEN Drop(buf2, MIN(datalen - ret, Len(buf2)))
                          ELSE buf2
                read == [conn EXCEPT ![s].recvbuf = buf3,
                                     ![s].recvpos =
                                        IF n4 > 0 THEN U32(@ + datalen + LENPFX)
                                                  ELSE @]
            IN IF ret > 0
                 THEN /\ conn' = read
                      /\ RecvReturn(s, ret, Take(buf1, ret), TRUE, len)
                 ELSE IF EptDead(conn[s])
                   THEN /\ RecvReturn(s, 0, <<>>, FALSE, len)
                        /\ conn' = read
                   ELSE IF nonblock
                     THEN /\ RecvReturn(s, EAGAIN, <<>>, FALSE, len)
                          /\ conn' = read
                     ELSE /\ conn' = [read EXCEPT ![s].recvdata = TRUE,
                                                  ![s].recvlen = len,
                                                  ![s].recvsem = 0]
                          /\ rcv' = [rcv EXCEPT ![s] =
                                [pc |-> "wait", len |-> len, ubuf |-> <<>>,
                                 ret |-> OK, pos |-> 0]]
                          /\ app' = app
  /\ UNCHANGED <<srv, acc, cli, cfg, net, cb, snd>>

\* After the wait of recvmsg: "if (!conn->ept.rdev || conn->unbind)
\* ret = -ECONNRESET".
WaitError_alt(c) == OK
WaitError(c) == IF EptDead(c) THEN ECONNRESET ELSE OK

\* net_sem_timedwait(&conn->recvsem) returns because the semaphore was posted.
RecvSemWait(s) ==
  /\ rcv[s].pc = "wait"
  /\ conn[s].recvsem > 0
  /\ conn' = [conn EXCEPT ![s].recvsem = @ - 1]
  /\ rcv' = [rcv EXCEPT ![s].pc = "relock", ![s].ret = WaitError(conn[s])]
  /\ UNCHANGED <<srv, acc, cli, cfg, net, cb, snd, app>>

\* rpmsg_socket_recvmsg after the wait: recvlock again, and the look at recvdata.
RecvRelock(s) ==
  /\ rcv[s].pc = "relock"
  /\ IF ~conn[s].recvdata
       THEN /\ RecvReturn(s, conn[s].recvlen, rcv[s].ubuf, TRUE, rcv[s].len)
            /\ conn' = conn
       ELSE /\ RecvReturn(s, rcv[s].ret, <<>>, FALSE, rcv[s].len)
            /\ conn' = [conn EXCEPT ![s].recvdata = FALSE]
  /\ UNCHANGED <<srv, acc, cli, cfg, net, cb, snd>>

\* rpmsg_socket_recvmsg from the label out: after a positive return value
\* rpmsg_socket_wakeup runs, up to its unlock of recvlock: whether to
\* acknowledge.
WakeupNeeded_alt(c) == U32(c.recvpos - c.lastpos) >= c.bufsize \div 2
WakeupNeeded(c) == U32(c.recvpos - c.lastpos) > c.bufsize \div 2

RecvWakeup(s) ==
  /\ rcv[s].pc = "out"
  /\ IF rcv[s].ret > 0 /\ ~EptDead(conn[s]) /\ WakeupNeeded(conn[s])
       THEN /\ conn' = [conn EXCEPT ![s].lastpos = conn[s].recvpos]
            /\ rcv' = [rcv EXCEPT ![s] =
                  [RcvIdle EXCEPT !.pc = "ack", !.pos = conn[s].recvpos]]
       ELSE /\ conn' = conn
            /\ rcv' = [rcv EXCEPT ![s] = RcvIdle]
  /\ UNCHANGED <<srv, acc, cli, cfg, net, cb, snd, app>>

\* rpmsg_socket_wakeup: rpmsg_send of the standalone acknowledgement, after
\* recvlock was released.
RecvAck(s) ==
  /\ rcv[s].pc = "ack"
  /\ rcv' = [rcv EXCEPT ![s] = RcvIdle]
  /\ IF EptDead(conn[s])
       THEN UNCHANGED <<net, app, conn>>
       ELSE /\ net' = [net EXCEPT ![Peer(s)] =
                         Append(@, DataMsg(rcv[s].pos, 0, <<>>))]
            /\ app' = [app EXCEPT ![s].acks = @ + 1]
            /\ conn' = [conn EXCEPT ![s].sentpos = MAX(@, rcv[s].pos)]
  /\ UNCHANGED <<srv, acc, cli, cfg, cb, snd>>

(***************************************************************************)
(* rpmsg_socket_ept_cb: the substrate hands the oldest frame to the side.  *)
(***************************************************************************)
\* A SYNC frame, handled under recvlock.
SyncCred_alt(head) == [pid |-> head.pid, uid |-> head.gid, gid |-> head.uid]
SyncCred(head) == [pid |-> head.pid, uid |-> head.uid, gid |-> head.gid]
\* rpmsg_socket_poll_notify(conn, POLLOUT) of the SYNC branch
SyncEvents_alt == {"POLLIN"}
SyncEvents == {"POLLOUT"}

EptCbSync(s) ==
  /\ conn[s].rdev
  /\ cb[s].pc = "idle"
  /\ net[s] # <<>>
  /\ Head(net[s]).cmd = RPMSG_SOCKET_CMD_SYNC
  /\ LET head == Head(net[s])
     IN conn' = [conn EXCEPT ![s] = rpmsg_socket_poll_notify(
                   [@ EXCEPT !.sendsize = head.size,
                             !.cred = SyncCred(head),
                             !.connected = TRUE,
                             !.sendsem = rpmsg_socket_post(@)], SyncEvents)]
  /\ net' = [net EXCEPT ![s] = Tail(@)]
  /\ UNCHANGED <<srv, acc, cli, cfg, cb, snd, rcv, app>>

\* A DATA frame, first part: the acknowledgement, under sendlock.
AckPos(c, msg) == msg.pos

EptCbAck(s) ==
  /\ conn[s].rdev
  /\ cb[s].pc = "idle"
  /\ net[s] # <<>>
  /\ Head(net[s]).cmd = RPMSG_SOCKET_CMD_DATA
  /\ ~SendLocked(s)                          \* sendlock is free
  /\ LET msg == Head(net[s])
         acked == [conn[s] EXCEPT !.ackpos = AckPos(conn[s], msg)]
     IN /\ conn' = [conn EXCEPT ![s] =
              IF rpmsg_socket_get_space(acked) > 0
                THEN rpmsg_socket_poll_notify(
                       [acked EXCEPT !.sendsem = rpmsg_socket_post(@)],
                       {"POLLOUT"})
                ELSE acked]
        /\ cb' = [cb EXCEPT ![s] =
              IF Len(msg.data) > 0 THEN [pc |-> "data", msg |-> msg]
                                   ELSE [pc |-> "idle", msg |-> NoMsg]]
  /\ net' = [net EXCEPT ![s] = Tail(@)]
  /\ UNCHANGED <<srv, acc, cli, cfg, snd, rcv, app>>

\* A DATA frame, second part: the payload, under recvlock.  len is the
\* length of the frame less the header; len = msg.len marks a stream frame.
\* Direct(c, msg): the bytes copied to the user buffer of a waiting reader,
\* Rest(c, msg): the bytes left for the circular buffer.
DirectLen(c, msg) == IF c.recvdata THEN MIN(c.recvlen, msg.len) ELSE 0

Direct(c, msg) ==
  IF Len(msg.data) = msg.len
    THEN Take(msg.data, DirectLen(c, msg))
    ELSE SubSeq(msg.data, LENPFX + 1, LENPFX + DirectLen(c, msg))

Rest(c, msg) ==
  IF ~c.recvdata THEN msg.data
  ELSE IF Len(msg.data) = msg.len THEN Drop(msg.data, DirectLen(c, msg))
  ELSE <<>>

RecvposAfter(c, msg) ==
  IF ~c.recvdata THEN c.recvpos
  ELSE IF Len(msg.data) = msg.len THEN U32(c.recvpos + DirectLen(c, msg))
  ELSE U32(c.recvpos + Len(msg.data))

EptCbData(s) ==
  /\ cb[s].pc = "data"
  /\ LET msg == cb[s].msg
         c == conn[s]
     IN /\ conn' = [conn EXCEPT ![s] =
              rpmsg_socket_poll_notify(
                [c EXCEPT !.recvlen = IF c.recvdata THEN DirectLen(c, msg) ELSE @,
                          !.recvpos = RecvposAfter(c, msg),
                          !.recvdata = FALSE,
                          !.recvsem = IF c.recvdata THEN rpmsg_socket_post(@) ELSE @,
                          !.recvbuf = circbuf_write(c, Rest(c, msg))],
                IF Rest(c, msg) # <<>> THEN {"POLLIN"} ELSE {})]
        /\ rcv' = [rcv EXCEPT ![s].ubuf = IF c.recvdata THEN Direct(c, msg) ELSE @]
  /\ cb' = [cb EXCEPT ![s] = [pc |-> "idle", msg |-> NoMsg]]
  /\ UNCHANGED <<srv, acc, cli, cfg, net, snd, app>>

(***************************************************************************)
(* rpmsg_socket_getsockopt: what the call returns and what it copies to    *)
(* the caller's value.                                                     *)
(***************************************************************************)
rpmsg_socket_getsockopt(c, peercred, value_len) ==
  IF peercred
    THEN IF value_len # UCRED_SIZE
           THEN [ret |-> EINVAL, value |-> NoCred]
           ELSE [ret |-> OK, value |-> c.cred]
    ELSE [ret |-> ENOPROTOOPT, value |-> NoCred]

(***************************************************************************)
(* The stream specification.                                               *)
(***************************************************************************)
Next ==
  \/ \E s \in Sides, n \in 1..MaxMsg : SendMsg(s, n, FALSE)
  \/ \E s \in Sides : SendSpace(s)
  \/ \E s \in Sides : SendSemWait(s)
  \/ \E s \in Sides : SendFill(s)
  \/ \E s \in Sides : SendXmit(s)
  \/ \E s \in Sides : SendDone(s)
  \/ \E s \in Sides, len \in 1..MaxRecvLen : RecvMsg(s, len, FALSE)
  \/ \E s \in Sides : RecvSemWait(s)
  \/ \E s \in Sides : RecvRelock(s)
  \/ \E s \in Sides : RecvWakeup(s)
  \/ \E s \in Sides : RecvAck(s)
  \/ \E s \in Sides : EptCbSync(s)
  \/ \E s \in Sides : EptCbAck(s)
  \/ \E s \in Sides : EptCbData(s)

Spec == Init /\ [][Next]_vars

(***************************************************************************)
(* The datagram specification: side 1 sends datagrams to side 2, with      *)
(* MSG_DONTWAIT.                                                           *)
(***************************************************************************)
\* CONFIG_NET_RPMSG_RXBUF_SIZE and the TX payload size of the datagram runs:
\* a datagram of MaxDgramLen bytes just fits both.
DgramRxBuf == HDR + LENPFX + MaxDgramLen
DgramTxPayload == LENPFX + MaxDgramLen
\* What the uninitialised bytes of datalen may hold.
Garbage == {0, 1}

InitDgram ==
  InitCommon("DGRAM", DgramRxBuf, DgramTxPayload, <<MaxDgrams * MaxDgramLen, 0>>,
             <<0, 0>>, <<MaxDgrams, 0>>)

\* The payload lengths of sendmsg: those that fit, the first that does
\* not, and the uint32_t for which len + sizeof(*msg) + sizeof(uint32_t)
\* is 2^32.
DgramLens == (0..(MaxDgramLen + 1)) \cup {Wrap - HDR - LENPFX}

NextDgram ==
  \/ \E s \in Sides, n \in DgramLens : SendMsg(s, n, TRUE)
  \/ \E s \in Sides : DgSendSpace(s)
  \/ \E s \in Sides : DgSendFill(s)
  \/ \E s \in Sides : DgSendXmit(s)
  \/ \E s \in Sides : SendDone(s)
  \/ \E s \in Sides, len \in 0..MaxRecvLen, nonblock \in BOOLEAN, g \in Garbage :
       DgRecvMsg(s, len, nonblock, g)
  \/ \E s \in Sides : RecvSemWait(s)
  \/ \E s \in Sides : RecvRelock(s)
  \/ \E s \in Sides : RecvWakeup(s)
  \/ \E s \in Sides : RecvAck(s)
  \/ \E s \in Sides : EptCbSync(s)
  \/ \E s \in Sides : EptCbAck(s)
  \/ \E s \in Sides : EptCbData(s)

SpecDgram == InitDgram /\ [][NextDgram]_vars

(***************************************************************************)
(* Datagrams sent by two threads on the socket of side 1, with             *)
(* MSG_DONTWAIT, while side 2 receives: threads 1 and 3 send on side 1.    *)
(***************************************************************************)
\* The datagrams side 1 sends in total: one more than fill the window.
RaceMaxDgrams == 4

InitDgramRace ==
  /\ cfg = [type |-> "DGRAM", rxbuf |-> DgramRxBuf,
            ipcsize |-> HDR + DgramTxPayload,
            maxsend |-> <<RaceMaxDgrams * MaxDgramLen, 0>>,
            maxrecv |-> <<0, 0>>, maxdg |-> <<RaceMaxDgrams, 0>>]
  /\ conn = [s \in {1, 2} |-> InitConn(DgramRxBuf)]
  /\ net = [s \in {1, 2} |->
              <<SyncMsg(SyncSize(InitConn(DgramRxBuf)), Cred(Peer(s)))>>]
  /\ cb = [s \in {1, 2} |-> [pc |-> "idle", msg |-> NoMsg]]
  /\ snd = [t \in {1, 2, 3} |-> SndIdle]
  /\ rcv = [s \in {1, 2} |-> RcvIdle]
  /\ app = [s \in {1, 2} |-> InitApp]
  /\ srv = InitSrv
  /\ acc = <<>>
  /\ cli = <<>>

NextDgramRace ==
  \/ \E t \in Senders : SendMsg(t, MaxDgramLen, TRUE)
  \/ \E t \in Senders : DgSendSpace(t)
  \/ \E t \in Senders : DgSendFill(t)
  \/ \E t \in Senders : DgSendXmit(t)
  \/ \E t \in Senders : SendDone(t)
  \/ \E s \in Sides, g \in Garbage : DgRecvMsg(s, MaxRecvLen, TRUE, g)
  \/ \E s \in Sides : RecvWakeup(s)
  \/ \E s \in Sides : RecvAck(s)
  \/ \E s \in Sides : EptCbSync(s)
  \/ \E s \in Sides : EptCbAck(s)
  \/ \E s \in Sides : EptCbData(s)

SpecDgramRace == InitDgramRace /\ [][NextDgramRace]_vars

(***************************************************************************)
(* Listen, connect, accept and close of the listening socket.              *)
(*                                                                         *)
(* Clients are the odd sides 1, 3, ...; the child connection the server    *)
(* allocates for client c is side c + 1.  Besides the frames of the socket *)
(* protocol the substrate delivers, in order with them, its own notices to *)
(* an endpoint: that the remote endpoint of the same name now exists       *)
(* (ns_bound_cb) and that it was destroyed (ns_unbind_cb).                 *)
(***************************************************************************)
NClients == 2
NAcceptors == 2
MaxBacklog == 2
MaxRefs == 2

Clients == {2 * i - 1 : i \in 1..NClients}
Acceptors == 1..NAcceptors

NS_BOUND == RPMSG_SOCKET_CMD_DATA + 1
NS_UNBIND == RPMSG_SOCKET_CMD_DATA + 2
NsMsg(cmd) == [NoMsg EXCEPT !.cmd = cmd]

\* conn is the connection attached to the new socket handle, 0 while the
\* handle is untouched.
AccIdle == [pc |-> "idle", ret |-> OK, conn |-> 0, nonblock |-> FALSE]
AccRet(ret, k) == [AccIdle EXCEPT !.pc = "ret", !.ret = ret, !.conn = k]
CliIdle == [pc |-> "idle", ret |-> OK, nonblock |-> FALSE]
CliRet(ret, nonblock) == [pc |-> "ret", ret |-> ret, nonblock |-> nonblock]

InitListen ==
  /\ cfg = [type |-> "STREAM", rxbuf |-> StreamRxBuf,
            ipcsize |-> HDR + StreamTxPayload, maxsend |-> <<0, 0>>,
            maxrecv |-> <<0, 0>>, maxdg |-> <<0, 0>>]
  /\ conn = [s \in 1..(2 * NClients) |->
               [InitConn(0) EXCEPT !.rdev = FALSE, !.nept = 0,
                                   !.life = IF s \in Clients THEN "live" ELSE "none"]]
  /\ net = [s \in 1..(2 * NClients) |-> <<>>]
  /\ cb = [s \in 1..(2 * NClients) |-> [pc |-> "idle", msg |-> NoMsg]]
  /\ snd = [s \in 1..(2 * NClients) |-> SndIdle]
  /\ rcv = [s \in 1..(2 * NClients) |-> RcvIdle]
  /\ app = [s \in 1..(2 * NClients) |-> InitApp]
  /\ srv = InitSrv
  /\ acc = [t \in Acceptors |-> AccIdle]
  /\ cli = [c \in Clients |-> CliIdle]

\* rpmsg_socket_destroy_ept: only a connection that has an endpoint is
\* touched.
rpmsg_socket_destroy_ept(c) ==
  IF c.rdev
    THEN [c EXCEPT !.backlog = IF c.backlog # 0 THEN -1 ELSE @,
                   !.rdev = FALSE,
                   !.nept = @ - 1,
                   !.sendsem = rpmsg_socket_post(@),
                   !.recvsem = rpmsg_socket_post(@),
                   !.fds = poll_notify(@, {"POLLIN", "POLLOUT"})]
    ELSE c

\* rpmsg_socket_close: the callbacks it unregisters, chosen by conn->backlog.
CloseUnregisters(backlog) ==
  IF backlog = -2 THEN {"destroy"}
  ELSE IF backlog # 0 THEN {"match", "bind"}
  ELSE {"created", "destroy"}

\* rpmsg_socket_device_created for the device of the connection's processor.
rpmsg_socket_device_created(c) ==
  IF c.rdev THEN c ELSE [c EXCEPT !.rdev = TRUE, !.nept = @ + 1]

\* rpmsg_socket_listen on the bound stream socket, backlog > 0.
Listen(backlog) ==
  /\ srv.life = "live"
  /\ ~srv.listening
  /\ srv' = [srv EXCEPT !.backlog = backlog, !.listening = TRUE,
                        !.reg = @ \cup {"match", "bind"}]
  /\ UNCHANGED <<cfg, conn, net, cb, snd, rcv, app, acc, cli>>

\* rpmsg_socket_addref: the listening socket is duplicated, as long as
\* fewer than max handles are open on it.
AddRef(max) ==
  /\ srv.life = "live"
  /\ srv.handles < max
  /\ srv' = [srv EXCEPT !.crefs = U16(@ + 1), !.handles = @ + 1]
  /\ UNCHANGED <<cfg, conn, net, cb, snd, rcv, app, acc, cli>>

\* rpmsg_socket_close of the listening socket: with more than one reference
\* the count drops; else the callbacks are unregistered, the endpoint (it
\* has none) is destroyed and the connection is freed.
Close ==
  /\ srv.life = "live"
  /\ srv' = IF srv.crefs > 1
              THEN [srv EXCEPT !.crefs = @ - 1, !.handles = @ - 1]
              ELSE [rpmsg_socket_destroy_ept(
                      [srv EXCEPT !.reg = @ \ CloseUnregisters(srv.backlog)])
                    EXCEPT !.listening = FALSE, !.life = "freed",
                           !.handles = @ - 1]
  /\ UNCHANGED <<cfg, conn, net, cb, snd, rcv, app, acc, cli>>

\* A new endpoint of client c announces its name to the server's
\* processor; the announcement is heard while no child answers c yet.
Announce(c, before, after) ==
  IF ~before.rdev /\ after.rdev /\ conn[Peer(c)].life = "none"
     /\ \A i \in DOMAIN srv.nsq : srv.nsq[i] # c
    THEN srv' = [srv EXCEPT !.nsq = Append(@, c)]
    ELSE srv' = srv

\* rpmsg_socket_connect of a stream client, up to the wait:
\* rpmsg_register_callback runs rpmsg_socket_device_created, which creates
\* the endpoint and so announces its name to the server's processor.
Connect(c, nonblock) ==
  /\ conn[c].life = "live"
  /\ cli[c].pc = "idle"
  /\ IF conn[c].connected
       THEN /\ cli' = [cli EXCEPT ![c] = CliRet(EISCONN, nonblock)]
            /\ UNCHANGED <<conn, srv>>
       ELSE LET new == rpmsg_socket_device_created(
                         [conn[c] EXCEPT !.bufsize = cfg.rxbuf,
                                         !.reg = @ \cup {"created", "destroy"}])
            IN /\ conn' = [conn EXCEPT ![c] = new]
               /\ Announce(c, conn[c], new)
               /\ cli' = [cli EXCEPT ![c] =
                     IF conn[c].sendsize # 0 THEN CliRet(OK, nonblock)
                     ELSE IF nonblock THEN CliRet(EINPROGRESS, nonblock)
                     ELSE [pc |-> "wait", ret |-> OK, nonblock |-> nonblock]]
  /\ UNCHANGED <<cfg, net, cb, snd, rcv, app, acc>>

\* rpmsg_socket_connect_internal: net_sem_timedwait(&conn->sendsem) returns
\* 0 because the semaphore was posted, and connect returns that.
ConnectWake(c) ==
  /\ cli[c].pc = "wait"
  /\ conn[c].sendsem > 0
  /\ conn' = [conn EXCEPT ![c].sendsem = @ - 1]
  /\ cli' = [cli EXCEPT ![c] = CliRet(OK, FALSE)]
  /\ UNCHANGED <<cfg, net, cb, snd, rcv, app, srv, acc>>

\* rpmsg_socket_ns_bind: the loop over the accept queue.  With n entries
\* queued the loop body runs n times, with cnt = 1 .. n.
NsBindRejects_alt(n, backlog) == \E cnt \in 1..n : cnt > backlog
NsBindRejects(n, backlog) == \E cnt \in 1..n : cnt >= backlog

\* rpmsg_socket_ns_bind for the announcement of client c: the child is
\* allocated and its endpoint created (which tells the client's endpoint
\* that it is bound), the child's SYNC is sent, and only then the queue is
\* looked at.
NsBind(c) ==
  /\ srv.life = "live"
  /\ srv.listening
  /\ srv.nsq # <<>>
  /\ Head(srv.nsq) = c
  /\ LET k == Peer(c)
         new == [InitConn(cfg.rxbuf) EXCEPT !.rdev = TRUE]
         hello == <<NsMsg(NS_BOUND), SyncMsg(SyncSize(new), Cred(k))>>
     IN IF NsBindRejects(Len(srv.queue), srv.backlog)
          THEN /\ conn' = [conn EXCEPT ![k] = [new EXCEPT !.rdev = FALSE,
                                                         !.nept = 0,
                                                         !.life = "freed"]]
               /\ net' = [net EXCEPT ![c] = @ \o hello \o <<NsMsg(NS_UNBIND)>>]
               /\ srv' = [srv EXCEPT !.nsq = Tail(@),
                                     !.rejected = @ \cup {c}]
          ELSE /\ conn' = [conn EXCEPT ![k] = new]
               /\ net' = [net EXCEPT ![c] = @ \o hello]
               /\ srv' = [srv EXCEPT !.nsq = Tail(@),
                                     !.queue = Append(@, k),
                                     !.recvsem = rpmsg_socket_post(@),
                                     !.pollin = @ + 1,
                                     !.fds = poll_notify(@, {"POLLIN"})]
  /\ UNCHANGED <<cfg, cb, snd, rcv, app, acc, cli>>

\* rpmsg_socket_ns_bound, the endpoint's ns_bound_cb: the SYNC is sent.
NsBound(s) ==
  /\ conn[s].rdev
  /\ cb[s].pc = "idle"
  /\ net[s] # <<>>
  /\ Head(net[s]).cmd = NS_BOUND
  /\ net' = [net EXCEPT ![s] = Tail(@),
                        ![Peer(s)] = Append(@, SyncMsg(SyncSize(conn[s]), Cred(s)))]
  /\ UNCHANGED <<cfg, conn, cb, snd, rcv, app, srv, acc, cli>>

\* rpmsg_socket_ns_unbind, the endpoint's ns_unbind_cb.
NsUnbind(s) ==
  /\ conn[s].rdev
  /\ cb[s].pc = "idle"
  /\ net[s] # <<>>
  /\ Head(net[s]).cmd = NS_UNBIND
  /\ conn' = [conn EXCEPT ![s] = rpmsg_socket_poll_notify(
                [@ EXCEPT !.unbind = TRUE,
                          !.sendsem = rpmsg_socket_post(@),
                          !.recvsem = rpmsg_socket_post(@)],
                {"POLLIN", "POLLOUT"})]
  /\ net' = [net EXCEPT ![s] = Tail(@)]
  /\ UNCHANGED <<cfg, cb, snd, rcv, app, srv, acc, cli>>

\* The substrate finds no endpoint for a frame and drops it.
Discard(s) ==
  /\ ~conn[s].rdev
  /\ net[s] # <<>>
  /\ net' = [net EXCEPT ![s] = Tail(@)]
  /\ UNCHANGED <<cfg, conn, cb, snd, rcv, app, srv, acc, cli>>

\* rpmsg_socket_accept, the tests at its entry: the error returned, or OK
\* when the loop is entered.
AcceptEntry(backlog, listening) ==
  IF backlog = -1 THEN ECONNRESET
  ELSE IF ~listening THEN EINVAL
  ELSE OK

\* rpmsg_socket_accept on the server's socket, which is non-blocking or not.
Accept(t, nonblock) ==
  /\ srv.life = "live"
  /\ acc[t].pc = "idle"
  /\ acc' = [acc EXCEPT ![t] =
        IF AcceptEntry(srv.backlog, srv.listening) # OK
          THEN AccRet(AcceptEntry(srv.backlog, srv.listening), 0)
          ELSE [AccIdle EXCEPT !.pc = "pop", !.nonblock = nonblock]]
  /\ UNCHANGED <<cfg, conn, net, cb, snd, rcv, app, srv, cli>>

\* rpmsg_socket_accept called on the socket of side s, a client's or one
\* that accept has handed out: a socket that never listened.
AcceptOther(t, s) ==
  /\ conn[s].life = "live"
  /\ acc[t].pc = "idle"
  /\ s \notin DOMAIN cli =>
       /\ conn[s].backlog # 0
       /\ \A u \in DOMAIN acc : ~(acc[u].pc = "sync" /\ acc[u].conn = s)
  /\ acc' = [acc EXCEPT ![t] = AccRet(AcceptEntry(conn[s].backlog, FALSE), 0)]
  /\ UNCHANGED <<cfg, conn, net, cb, snd, rcv, app, srv, cli>>

\* The body of the loop: under the server's recvlock the head of the queue
\* is taken; a connection taken becomes an accepted socket (backlog = -2)
\* and, until its peer's SYNC has come, is waited for on its sendsem; with
\* nothing queued a non-blocking socket gives -EAGAIN, on a blocking one
\* the thread sleeps on the server's recvsem.
AcceptPop(t) ==
  /\ srv.life = "live"
  /\ acc[t].pc = "pop"
  /\ IF srv.queue # <<>>
       THEN LET k == Head(srv.queue)
            IN /\ srv' = [srv EXCEPT !.queue = Tail(@)]
               /\ conn' = [conn EXCEPT ![k].backlog = -2,
                                        ![k].reg = @ \cup {"destroy"}]
               /\ acc' = [acc EXCEPT ![t] =
                     IF conn[k].sendsize = 0
                       THEN [AccIdle EXCEPT !.pc = "sync", !.conn = k]
                       ELSE AccRet(OK, k)]
       ELSE /\ acc' = [acc EXCEPT ![t] =
                  IF acc[t].nonblock THEN AccRet(EAGAIN, 0)
                                     ELSE [@ EXCEPT !.pc = "wait"]]
            /\ UNCHANGED <<srv, conn>>
  /\ UNCHANGED <<cfg, net, cb, snd, rcv, app, cli>>

\* net_sem_wait(&conn->sendsem) of the accepted connection returns.
AcceptSync(t) ==
  /\ acc[t].pc = "sync"
  /\ conn[acc[t].conn].sendsem > 0
  /\ conn' = [conn EXCEPT ![acc[t].conn].sendsem = @ - 1]
  /\ acc' = [acc EXCEPT ![t] = AccRet(OK, acc[t].conn)]
  /\ UNCHANGED <<cfg, net, cb, snd, rcv, app, srv, cli>>

\* net_sem_wait(&server->recvsem) returns because the semaphore was posted.
AcceptWake(t) ==
  /\ srv.life = "live"
  /\ acc[t].pc = "wait"
  /\ srv.recvsem > 0
  /\ srv' = [srv EXCEPT !.recvsem = @ - 1]
  /\ acc' = [acc EXCEPT ![t] =
        IF srv.backlog = -1 THEN AccRet(ECONNRESET, 0)
                            ELSE [AccIdle EXCEPT !.pc = "pop"]]
  /\ UNCHANGED <<cfg, conn, net, cb, snd, rcv, app, cli>>

\* A thread inside accept when the server's connection was freed: its wait
\* is on a destroyed semaphore in freed memory.  It may sleep for ever (no
\* step); if a signal ends the wait, server->backlog is read from freed
\* memory, and accept returns -ECONNRESET or the error of the wait.
AcceptDangling(t, ret) ==
  /\ srv.life = "freed"
  /\ acc[t].pc \in {"pop", "wait"}
  /\ acc' = [acc EXCEPT ![t] = AccRet(ret, 0)]
  /\ UNCHANGED <<cfg, conn, net, cb, snd, rcv, app, srv, cli>>

\* accept has returned to the application.
AcceptDone(t) ==
  /\ acc[t].pc = "ret"
  /\ acc' = [acc EXCEPT ![t] = AccIdle]
  /\ UNCHANGED <<cfg, conn, net, cb, snd, rcv, app, srv, cli>>

NextListen ==
  \/ \E backlog \in 1..MaxBacklog : Listen(backlog)
  \/ AddRef(MaxRefs)
  \/ Close
  \/ \E c \in Clients : Connect(c, FALSE)
  \/ \E c \in Clients : ConnectWake(c)
  \/ \E c \in Clients : NsBind(c)
  \/ \E s \in Sides : NsBound(s)
  \/ \E s \in Sides : NsUnbind(s)
  \/ \E s \in Sides : Discard(s)
  \/ \E s \in Sides : EptCbSync(s)
  \/ \E t \in Acceptors : Accept(t, FALSE)
  \/ \E t \in Acceptors : AcceptPop(t)
  \/ \E t \in Acceptors : AcceptSync(t)
  \/ \E t \in Acceptors : AcceptWake(t)
  \/ \E t \in Acceptors, ret \in {ECONNRESET, EINTR} : AcceptDangling(t, ret)
  \/ \E t \in Acceptors : AcceptDone(t)

SpecListen == InitListen /\ [][NextListen]_vars

(***************************************************************************)
(* The life of a client and of an accepted connection: non-blocking and    *)
(* repeated connect, poll, the device of the peer's processor going and    *)
(* coming, and the final close.                                            *)
(***************************************************************************)
\* connect has returned to the application.
ConnectDone(c) ==
  /\ cli[c].pc = "ret"
  /\ cli' = [cli EXCEPT ![c] = CliIdle]
  /\ UNCHANGED <<cfg, conn, net, cb, snd, rcv, app, srv, acc>>

\* rpmsg_socket_connect_internal: the wait fails (a signal, the timeout),
\* the callbacks are unregistered and connect returns the error.
ConnectFail(c, ret) ==
  /\ cli[c].pc = "wait"
  /\ conn[c].sendsem = 0
  /\ conn' = [conn EXCEPT ![c].reg = @ \ {"created", "destroy"}]
  /\ cli' = [cli EXCEPT ![c] = CliRet(ret, FALSE)]
  /\ UNCHANGED <<cfg, net, cb, snd, rcv, app, srv, acc>>

\* The substrate runs rpmsg_socket_device_created of a client: the device
\* of the server's processor has come.  What was on its way to the
\* endpoint destroyed before is lost.
DeviceCreated(c) ==
  /\ conn[c].life = "live"
  /\ "created" \in conn[c].reg
  /\ cb[c].pc = "idle"
  /\ LET new == rpmsg_socket_device_created(conn[c])
     IN /\ conn' = [conn EXCEPT ![c] = new]
        /\ Announce(c, conn[c], new)
        /\ net' = IF conn[c].rdev THEN net ELSE [net EXCEPT ![c] = <<>>]
  /\ UNCHANGED <<cfg, cb, snd, rcv, app, acc, cli>>

\* The substrate runs rpmsg_socket_device_destroy: the device of the
\* peer's processor has gone.
DeviceDestroy(s) ==
  /\ conn[s].life = "live"
  /\ "destroy" \in conn[s].reg
  /\ cb[s].pc = "idle"
  /\ ~SendLocked(s)
  /\ conn' = [conn EXCEPT ![s] = rpmsg_socket_destroy_ept(@)]
  /\ UNCHANGED <<cfg, net, cb, snd, rcv, app, srv, acc, cli>>

\* The application may close the socket of side s: no call of its own is
\* inside the socket, and a child has been handed out by accept.
Closable(s) ==
  /\ conn[s].life = "live"
  /\ cb[s].pc = "idle"
  /\ \A t \in Senders : Side(t) = s => snd[t].pc = "idle"
  /\ rcv[s].pc = "idle"
  /\ \A i \in DOMAIN conn[s].fds : conn[s].fds[i].pc # "setup"
  /\ s \in DOMAIN cli => cli[s].pc # "wait"
  /\ s \notin DOMAIN cli =>
       /\ conn[s].backlog # 0
       /\ \A t \in DOMAIN acc : ~(acc[t].pc = "sync" /\ acc[t].conn = s)

\* rpmsg_socket_close of a client's or an accepted socket, its last
\* reference: the callbacks are unregistered, the endpoint is destroyed
\* (the substrate tells the remote endpoint) and the connection freed.
rpmsg_socket_close(c) ==
  [rpmsg_socket_destroy_ept([c EXCEPT !.reg = @ \ CloseUnregisters(c.backlog)])
   EXCEPT !.life = "freed"]

CloseConn(s) ==
  /\ Closable(s)
  /\ conn' = [conn EXCEPT ![s] = rpmsg_socket_close(@)]
  /\ net' = IF conn[s].rdev
              THEN [net EXCEPT ![Peer(s)] = Append(@, NsMsg(NS_UNBIND))]
              ELSE net
  /\ UNCHANGED <<cfg, cb, snd, rcv, app, srv, acc, cli>>

\* rpmsg_socket_poll, setup: under polllock the first free slot is bound;
\* with no slot free poll returns -EBUSY and nothing has changed.
FreeSlot(fds) ==
  CHOOSE i \in DOMAIN fds :
    ~fds[i].used /\ \A j \in DOMAIN fds : j < i => fds[j].used

PollSetup(s, events) ==
  /\ conn[s].life = "live"
  /\ \E i \in DOMAIN conn[s].fds : ~conn[s].fds[i].used
  /\ conn' = [conn EXCEPT ![s].fds[FreeSlot(conn[s].fds)] =
        [NoFd EXCEPT !.used = TRUE, !.pc = "setup", !.events = events]]
  /\ UNCHANGED <<cfg, net, cb, snd, rcv, app, srv, acc, cli>>

\* The events poll finds at once on a socket that is not listening.
PollEventset_alt(c) ==
  IF c.connected
    THEN (IF EptDead(c) THEN {"POLLHUP"} ELSE {})
         \cup (IF rpmsg_socket_get_space(c) >= 0 THEN {"POLLOUT"} ELSE {})
         \cup (IF c.recvbuf # <<>> THEN {"POLLIN"} ELSE {})
    ELSE IF EptDead(c) THEN {"POLLHUP"} ELSE {}
PollEventset(c) ==
  IF c.connected
    THEN (IF EptDead(c) THEN {"POLLHUP"} ELSE {})
         \cup (IF rpmsg_socket_get_space(c) > 0 THEN {"POLLOUT"} ELSE {})
         \cup (IF c.recvbuf # <<>> THEN {"POLLIN"} ELSE {})
    ELSE IF EptDead(c) THEN {"POLLHUP"} ELSE {}

\* rpmsg_socket_poll, setup, after the slot was bound: the events present
\* are notified to all the slots.
PollNotify(s, i) ==
  /\ conn[s].life = "live"
  /\ conn[s].fds[i].pc = "setup"
  /\ conn' = [conn EXCEPT ![s] = rpmsg_socket_poll_notify(
                [@ EXCEPT !.fds[i].pc = "wait"], PollEventset(conn[s]))]
  /\ UNCHANGED <<cfg, net, cb, snd, rcv, app, srv, acc, cli>>

\* rpmsg_socket_poll, teardown: the slot is released.
PollTeardown(s, i) ==
  /\ conn[s].life = "live"
  /\ conn[s].fds[i].pc = "wait"
  /\ conn' = [conn EXCEPT ![s].fds[i] = NoFd]
  /\ UNCHANGED <<cfg, net, cb, snd, rcv, app, srv, acc, cli>>

\* The one thread that accepts, and the one client and its child.
LifeAcceptor == CHOOSE t \in Acceptors : \A u \in Acceptors : t <= u
LifeClient == CHOOSE c \in Clients : \A d \in Clients : c <= d
LifeSides == {LifeClient, Peer(LifeClient)}

NextLife ==
  \/ Listen(MaxBacklog)
  \/ \E nonblock \in BOOLEAN : Connect(LifeClient, nonblock)
  \/ ConnectWake(LifeClient)
  \/ ConnectFail(LifeClient, EINTR)
  \/ ConnectDone(LifeClient)
  \/ DeviceCreated(LifeClient)
  \/ \E s \in LifeSides : DeviceDestroy(s)
  \/ \E s \in LifeSides : CloseConn(s)
  \/ NsBind(LifeClient)
  \/ \E s \in LifeSides : NsBound(s)
  \/ \E s \in LifeSides : NsUnbind(s)
  \/ \E s \in LifeSides : Discard(s)
  \/ \E s \in LifeSides : EptCbSync(s)
  \/ Accept(LifeAcceptor, FALSE)
  \/ AcceptPop(LifeAcceptor)
  \/ AcceptSync(LifeAcceptor)
  \/ AcceptWake(LifeAcceptor)
  \/ AcceptDone(LifeAcceptor)

SpecLife == InitListen /\ [][NextLife]_vars

(***************************************************************************)
(* The stream data path while the connection is torn down: the peer        *)
(* closes, or the device of its processor goes.  Side 1 is a client whose  *)
(* non-blocking connect has returned and whose SYNC is in flight, side 2   *)
(* the accepted connection, which has had the client's SYNC; two threads   *)
(* send on side 1.                                                         *)
(***************************************************************************)
ResetMaxSend == 3
ResetMaxRecv == 2

InitReset ==
  /\ cfg = [type |-> "STREAM", rxbuf |-> StreamRxBuf,
            ipcsize |-> HDR + StreamTxPayload,
            maxsend |-> <<ResetMaxSend, 0>>,
            maxrecv |-> <<0, ResetMaxRecv>>, maxdg |-> <<0, 0>>]
  /\ conn = [s \in {1, 2} |->
       IF s = 1
         THEN [InitConn(StreamRxBuf) EXCEPT !.reg = {"created", "destroy"}]
         ELSE [InitConn(StreamRxBuf) EXCEPT
                 !.backlog = -2, !.reg = {"destroy"}, !.connected = TRUE,
                 !.sendsize = SyncSize(InitConn(StreamRxBuf)),
                 !.cred = Cred(1)]]
  /\ net = [s \in {1, 2} |->
       IF s = 1 THEN <<SyncMsg(SyncSize(InitConn(StreamRxBuf)), Cred(2))>>
                ELSE <<>>]
  /\ cb = [s \in {1, 2} |-> [pc |-> "idle", msg |-> NoMsg]]
  /\ snd = [t \in {1, 2, 3} |-> SndIdle]
  /\ rcv = [s \in {1, 2} |-> RcvIdle]
  /\ app = [s \in {1, 2} |-> InitApp]
  /\ srv = InitSrv
  /\ acc = <<>>
  /\ cli = [c \in {1} |-> CliRet(EINPROGRESS, TRUE)]

NextReset ==
  \/ \E t \in Senders, n \in 1..MaxMsg : SendMsg(t, n, FALSE)
  \/ \E t \in Senders : SendSpace(t)
  \/ \E t \in Senders : SendSemWait(t)
  \/ \E t \in Senders : SendFill(t)
  \/ \E t \in Senders : SendXmit(t)
  \/ \E t \in Senders : SendDone(t)
  \/ \E s \in Sides : RecvMsg(s, MaxRecvLen, FALSE)
  \/ \E s \in Sides : RecvSemWait(s)
  \/ \E s \in Sides : RecvRelock(s)
  \/ \E s \in Sides : RecvWakeup(s)
  \/ \E s \in Sides : RecvAck(s)
  \/ \E s \in Sides : EptCbSync(s)
  \/ \E s \in Sides : EptCbAck(s)
  \/ \E s \in Sides : EptCbData(s)
  \/ \E s \in Sides : NsUnbind(s)
  \/ \E s \in Sides : Discard(s)
  \/ \E s \in Sides : DeviceDestroy(s)
  \/ \E c \in DOMAIN cli : DeviceCreated(c)
  \/ \E s \in Sides : CloseConn(s)

SpecReset == InitReset /\ [][NextReset]_vars

(***************************************************************************)
(* Poll on a client that connects, blocking or not, while the server       *)
(* answers and the device may go.                                          *)
(***************************************************************************)
NextPoll ==
  \/ Listen(MaxBacklog)
  \/ \E nonblock \in BOOLEAN : Connect(LifeClient, nonblock)
  \/ ConnectWake(LifeClient)
  \/ ConnectDone(LifeClient)
  \/ \E events \in {{"POLLIN"}, {"POLLOUT"}} : PollSetup(LifeClient, events)
  \/ \E i \in 1..NPollWaiters : PollNotify(LifeClient, i)
  \/ \E i \in 1..NPollWaiters : PollTeardown(LifeClient, i)
  \/ DeviceDestroy(LifeClient)
  \/ NsBind(LifeClient)
  \/ \E s \in LifeSides : NsBound(s)
  \/ \E s \in LifeSides : Discard(s)
  \/ \E s \in LifeSides : EptCbSync(s)

SpecPoll == InitListen /\ [][NextPoll]_vars

(***************************************************************************)
(* The server's socket: its handles are duplicated and closed, accept is   *)
(* called on it, blocking or not, and on sockets that never listened,      *)
(* while one client connects and the device of its processor may go.       *)
(***************************************************************************)
NextServer ==
  \/ Listen(MaxBacklog)
  \/ AddRef(RefWrap)
  \/ Close
  \/ Connect(LifeClient, FALSE)
  \/ ConnectWake(LifeClient)
  \/ NsBind(LifeClient)
  \/ \E s \in LifeSides : NsBound(s)
  \/ \E s \in LifeSides : Discard(s)
  \/ \E s \in LifeSides : EptCbSync(s)
  \/ \E s \in LifeSides : DeviceDestroy(s)
  \/ \E nonblock \in BOOLEAN : Accept(LifeAcceptor, nonblock)
  \/ \E s \in LifeSides : AcceptOther(LifeAcceptor, s)
  \/ AcceptPop(LifeAcceptor)
  \/ AcceptSync(LifeAcceptor)
  \/ AcceptWake(LifeAcceptor)
  \/ \E ret \in {ECONNRESET, EINTR} : AcceptDangling(LifeAcceptor, ret)
  \/ AcceptDone(LifeAcceptor)

SpecServer == InitListen /\ [][NextServer]_vars

(***************************************************************************)
(* The announcements of clients that sit on different processors: the      *)
(* substrate runs rpmsg_socket_ns_bind for each in the context of the      *)
(* client's device, so that two of them may be inside it at once.  The     *)
(* handler is taken in its steps: the part up to the unlock of the         *)
(* server's recvlock, then of rpmsg_socket_post the reading of the count   *)
(* and the post.  cb of the child's side is the context: "bound" after the *)
(* unlock, "post" or "nopost" after the count was read.                    *)
(***************************************************************************)
\* rpmsg_socket_ns_bind up to nxmutex_unlock(&server->recvlock).
NsBindQueue(c) ==
  /\ srv.life = "live"
  /\ srv.listening
  /\ srv.nsq # <<>>
  /\ Head(srv.nsq) = c
  /\ LET k == Peer(c)
         new == [InitConn(cfg.rxbuf) EXCEPT !.rdev = TRUE]
         hello == <<NsMsg(NS_BOUND), SyncMsg(SyncSize(new), Cred(k))>>
     IN IF NsBindRejects(Len(srv.queue), srv.backlog)
          THEN /\ conn' = [conn EXCEPT ![k] = [new EXCEPT !.rdev = FALSE,
                                                         !.nept = 0,
                                                         !.life = "freed"]]
               /\ net' = [net EXCEPT ![c] = @ \o hello \o <<NsMsg(NS_UNBIND)>>]
               /\ srv' = [srv EXCEPT !.nsq = Tail(@),
                                     !.rejected = @ \cup {c}]
               /\ cb' = cb
          ELSE /\ conn' = [conn EXCEPT ![k] = new]
               /\ net' = [net EXCEPT ![c] = @ \o hello]
               /\ srv' = [srv EXCEPT !.nsq = Tail(@),
                                     !.queue = Append(@, k)]
               /\ cb' = [cb EXCEPT ![k].pc = "bound"]
  /\ UNCHANGED <<cfg, snd, rcv, app, acc, cli>>

\* rpmsg_socket_post(&server->recvsem): nxsem_get_value and the test.
NsBindGetValue(c) ==
  /\ cb[Peer(c)].pc = "bound"
  /\ cb' = [cb EXCEPT ![Peer(c)].pc =
              IF srv.recvsem < 1 THEN "post" ELSE "nopost"]
  /\ UNCHANGED <<cfg, conn, net, snd, rcv, app, srv, acc, cli>>

\* rpmsg_socket_post(&server->recvsem): nxsem_post if the count read was
\* below 1; then rpmsg_socket_poll_notify(server, POLLIN).
NsBindPost(c) ==
  /\ cb[Peer(c)].pc \in {"post", "nopost"}
  /\ srv' = [srv EXCEPT !.recvsem = IF cb[Peer(c)].pc = "post" THEN @ + 1
                                                              ELSE @,
                        !.pollin = @ + 1,
                        !.fds = poll_notify(@, {"POLLIN"})]
  /\ cb' = [cb EXCEPT ![Peer(c)].pc = "idle"]
  /\ UNCHANGED <<cfg, conn, net, snd, rcv, app, acc, cli>>

NextBind ==
  \/ Listen(MaxBacklog)
  \/ \E c \in Clients : Connect(c, FALSE)
  \/ \E c \in Clients : ConnectWake(c)
  \/ \E c \in Clients : NsBindQueue(c)
  \/ \E c \in Clients : NsBindGetValue(c)
  \/ \E c \in Clients : NsBindPost(c)
  \/ \E s \in Sides : NsBound(s)
  \/ \E s \in Sides : EptCbSync(s)
  \/ \E t \in Acceptors : Accept(t, FALSE)
  \/ \E t \in Acceptors : AcceptPop(t)
  \/ \E t \in Acceptors : AcceptSync(t)
  \/ \E t \in Acceptors : AcceptWake(t)
  \/ \E t \in Acceptors : AcceptDone(t)

SpecBind == InitListen /\ [][NextBind]_vars

(***************************************************************************)
(* The locks.  In the specifications above a stretch of code under a lock  *)
(* is one step, so that no thread is ever seen waiting for a lock.  Here   *)
(* every function is taken as the paths it can run from its entry, or from *)
(* the head of its loop, to its return, or back to the head of the loop,   *)
(* each path the sequence of its nxmutex_lock, nxmutex_unlock and          *)
(* semaphore waits; the calls into the substrate made in between return    *)
(* without entering this file again and are no steps of their own.         *)
(* Two connections are there: "conn", a connected socket, and "server", a  *)
(* listening one.  A thread is the rest of its path and the locks it       *)
(* holds: snd[1] is inside sendmsg, rcv[1] inside recvmsg (both connect an *)
(* unconnected socket first, through the function connect itself calls),   *)
(* acc[1] inside accept, app[1] inside poll or close, and cb[1] is the     *)
(* substrate's context running a callback.  The data of the connections    *)
(* plays no part: which path is run is a free choice.                      *)
(***************************************************************************)
\* nxmutex_lock(&c->l), nxmutex_unlock(&c->l), and net_sem_wait or
\* net_sem_timedwait on &c->s.
nxmutex_lock(c, l) == [op |-> "lock", obj |-> <<c, l>>]
nxmutex_unlock(c, l) == [op |-> "unlock", obj |-> <<c, l>>]
net_sem_wait(c, s) == [op |-> "wait", obj |-> <<c, s>>]

\* rpmsg_socket_poll_notify
PollNotifyPath(c) ==
  <<nxmutex_lock(c, "polllock"), nxmutex_unlock(c, "polllock")>>

\* rpmsg_socket_ept_cb: a SYNC; or a DATA frame, its position stored under
\* sendlock (with a notification if space opened), and its payload, if it
\* has one, taken under recvlock (with a notification if bytes went to the
\* circular buffer).
EptCbPaths(c) ==
  {<<nxmutex_lock(c, "recvlock")>> \o PollNotifyPath(c)
     \o <<nxmutex_unlock(c, "recvlock")>>}
  \cup
  {<<nxmutex_lock(c, "sendlock")>> \o ack \o <<nxmutex_unlock(c, "sendlock")>>
     \o payload :
     ack \in {<<>>, PollNotifyPath(c)},
     payload \in {<<>>,
                  <<nxmutex_lock(c, "recvlock"), nxmutex_unlock(c, "recvlock")>>,
                  <<nxmutex_lock(c, "recvlock")>> \o PollNotifyPath(c)
                    \o <<nxmutex_unlock(c, "recvlock")>>}}

\* rpmsg_socket_destroy_ept: recvlock, then sendlock; with an endpoint the
\* endpoint is destroyed and the waiters are notified under both.
DestroyEptPaths_alt(c) ==
  {<<nxmutex_lock(c, "sendlock"), nxmutex_lock(c, "recvlock")>> \o inner
     \o <<nxmutex_unlock(c, "recvlock"), nxmutex_unlock(c, "sendlock")>> :
     inner \in {<<>>, PollNotifyPath(c)}}
DestroyEptPaths(c) ==
  {<<nxmutex_lock(c, "recvlock"), nxmutex_lock(c, "sendlock")>> \o inner
     \o <<nxmutex_unlock(c, "sendlock"), nxmutex_unlock(c, "recvlock")>> :
     inner \in {<<>>, PollNotifyPath(c)}}

\* rpmsg_socket_ns_unbind
NsUnbindPaths(c) ==
  {<<nxmutex_lock(c, "recvlock")>> \o PollNotifyPath(c)
     \o <<nxmutex_unlock(c, "recvlock")>>}

\* rpmsg_socket_ns_bind: the SYNC is sent first; the queue is walked under
\* the server's recvlock; a rejected child's endpoint is destroyed after
\* the unlock, an appended one is notified after it.
NsBindPaths(server) ==
  {<<nxmutex_lock(server, "recvlock"), nxmutex_unlock(server, "recvlock")>>
     \o after :
     after \in {<<>>, PollNotifyPath(server)}}

\* rpmsg_socket_wakeup: nothing if the endpoint is dead, else the test
\* under recvlock and the acknowledgement sent after the unlock.
WakeupPaths(c) ==
  {<<>>, <<nxmutex_lock(c, "recvlock"), nxmutex_unlock(c, "recvlock")>>}

\* rpmsg_socket_connect_internal: the wait for the SYNC.
ConnectPaths(c) == {<<net_sem_wait(c, "sendsem")>>}

\* rpmsg_socket_accept, one turn of its loop: the pop under the server's
\* recvlock; then the wait for the child's SYNC, or the return, or the
\* wait for an announcement.
AcceptPaths(server, c) ==
  {<<nxmutex_lock(server, "recvlock"), nxmutex_unlock(server, "recvlock")>>
     \o after :
     after \in {<<>>, <<net_sem_wait(c, "sendsem")>>,
                <<net_sem_wait(server, "recvsem")>>}}

\* rpmsg_socket_poll: the setup takes a slot under polllock, then looks at
\* the space under sendlock and at the buffer under recvlock if the socket
\* is connected, and notifies; the teardown frees the slot under polllock.
\* connected tells whether the socket can have _SF_CONNECTED set.
PollPaths(c, connected) ==
  {<<nxmutex_lock(c, "polllock"), nxmutex_unlock(c, "polllock")>> \o after :
     after \in {<<>>, PollNotifyPath(c)}
               \cup IF connected
                      THEN {<<nxmutex_lock(c, "sendlock"),
                              nxmutex_unlock(c, "sendlock"),
                              nxmutex_lock(c, "recvlock"),
                              nxmutex_unlock(c, "recvlock")>>
                              \o PollNotifyPath(c)}
                      ELSE {}}

\* rpmsg_socket_sendmsg: the connect of an unconnected socket; then of
\* rpmsg_socket_send_continuous one turn of its loop, the space read under
\* sendlock and then the wait for credit, or the return, or the TX buffer
\* taken and the frame built and sent under sendlock; the paths of
\* rpmsg_socket_send_single, a turn of its loop that waits or the turn
\* that leaves it and sends the datagram, are the same.
SendmsgPaths(c) ==
  ConnectPaths(c)
  \cup
  {<<nxmutex_lock(c, "sendlock"), nxmutex_unlock(c, "sendlock")>> \o after :
     after \in {<<>>, <<net_sem_wait(c, "sendsem")>>,
                <<nxmutex_lock(c, "sendlock"),
                  nxmutex_unlock(c, "sendlock")>>}}

\* rpmsg_socket_recvmsg: the connect of a bound datagram socket; the read
\* under recvlock; with nothing to read the unlock, the wait on recvsem and
\* the lock taken again; after the last unlock rpmsg_socket_wakeup if bytes
\* were returned.
RecvmsgPaths_alt(c) ==
  ConnectPaths(c)
  \cup
  {read \o w :
     read \in {<<nxmutex_lock(c, "recvlock"), nxmutex_unlock(c, "recvlock")>>,
               <<nxmutex_lock(c, "recvlock"), net_sem_wait(c, "recvsem"),
                 nxmutex_unlock(c, "recvlock"),
                 nxmutex_lock(c, "recvlock"), nxmutex_unlock(c, "recvlock")>>},
     w \in WakeupPaths(c)}
RecvmsgPaths(c) ==
  ConnectPaths(c)
  \cup
  {read \o w :
     read \in {<<nxmutex_lock(c, "recvlock"), nxmutex_unlock(c, "recvlock")>>,
               <<nxmutex_lock(c, "recvlock"), nxmutex_unlock(c, "recvlock"),
                 net_sem_wait(c, "recvsem"),
                 nxmutex_lock(c, "recvlock"), nxmutex_unlock(c, "recvlock")>>},
     w \in WakeupPaths(c)}

LockThreads == {"snd", "rcv", "acc", "app", "cb"}
Thread(t) ==
  CASE t = "snd" -> snd[1]
    [] t = "rcv" -> rcv[1]
    [] t = "acc" -> acc[1]
    [] t = "app" -> app[1]
    [] t = "cb" -> cb[1]

\* The paths thread t may enter; rpmsg_socket_close of the last reference
\* and rpmsg_socket_device_destroy run rpmsg_socket_destroy_ept.
PathsOf(t) ==
  CASE t = "snd" -> SendmsgPaths("conn")
    [] t = "rcv" -> RecvmsgPaths("conn")
    [] t = "acc" -> AcceptPaths("server", "conn")
    [] t = "app" -> PollPaths("conn", TRUE) \cup PollPaths("server", FALSE)
                      \cup DestroyEptPaths("conn")
                      \cup DestroyEptPaths("server")
    [] t = "cb" -> EptCbPaths("conn") \cup NsUnbindPaths("conn")
                     \cup DestroyEptPaths("conn") \cup NsBindPaths("server")

AtOp(t, op) == Thread(t).prog # <<>> /\ Head(Thread(t).prog).op = op
\* nxmutex_lock blocks while the mutex is held by some thread, the
\* caller included (the mutexes are not recursive).
Blocked(t) ==
  /\ AtOp(t, "lock")
  /\ \E u \in LockThreads : Head(Thread(t).prog).obj \in Thread(u).held

\* The thread after the next step of its path.
StepOf(th) ==
  LET st == Head(th.prog)
  IN [prog |-> Tail(th.prog),
      held |-> CASE st.op = "lock" -> th.held \cup {st.obj}
                 [] st.op = "unlock" -> th.held \ {st.obj}
                 [] OTHER -> th.held]

\* All locks are free and every thread is outside the file.
InitLock ==
  /\ cfg = [type |-> "STREAM", rxbuf |-> StreamRxBuf,
            ipcsize |-> HDR + StreamTxPayload, maxsend |-> <<0, 0>>,
            maxrecv |-> <<0, 0>>, maxdg |-> <<0, 0>>]
  /\ conn = <<InitConn(StreamRxBuf)>>
  /\ net = <<<<>>>>
  /\ srv = InitSrv
  /\ cli = <<>>
  /\ snd = <<[prog |-> <<>>, held |-> {}]>>
  /\ rcv = snd
  /\ acc = snd
  /\ app = snd
  /\ cb = snd

SetThread(t, th) ==
  /\ snd' = IF t = "snd" THEN <<th>> ELSE snd
  /\ rcv' = IF t = "rcv" THEN <<th>> ELSE rcv
  /\ acc' = IF t = "acc" THEN <<th>> ELSE acc
  /\ app' = IF t = "app" THEN <<th>> ELSE app
  /\ cb' = IF t = "cb" THEN <<th>> ELSE cb
  /\ UNCHANGED <<cfg, conn, net, srv, cli>>

\* Thread t enters one of its functions, or the next turn of a loop.
LockEnter(t) ==
  /\ Thread(t).prog = <<>>
  /\ \E p \in PathsOf(t) \ {<<>>} : SetThread(t, [Thread(t) EXCEPT !.prog = p])

\* Thread t takes the next step of its path, unless that is nxmutex_lock
\* on a mutex that is held.
LockStep(t) ==
  /\ Thread(t).prog # <<>>
  /\ ~Blocked(t)
  /\ SetThread(t, StepOf(Thread(t)))

NextLock ==
  \/ \E t \in LockThreads : LockEnter(t)
  \/ \E t \in LockThreads : LockStep(t)

SpecLock == InitLock /\ [][NextLock]_vars

(***************************************************************************)
(* The suffix id.  NSockets sockets of one process, each with a thread     *)
(* that calls bind or connect on it once; conn[t] is socket t's            *)
(* connection, of which nameid alone matters here (empty, or ":" and the   *)
(* id printed), cli[t] the thread, and app holds the process-wide static   *)
(* g_rpmsg_id.  The counter is a plain uint64_t changed under no lock:     *)
(* g_rpmsg_id++ is a load and a store, and another thread can run between  *)
(* the two.                                                                *)
(***************************************************************************)
NSockets == 3

InitSetaddr ==
  /\ cfg = [type |-> "STREAM", rxbuf |-> StreamRxBuf,
            ipcsize |-> HDR + StreamTxPayload, maxsend |-> <<0, 0>>,
            maxrecv |-> <<0, 0>>, maxdg |-> <<0, 0>>]
  /\ conn = [t \in 1..NSockets |-> [life |-> "live", nameid |-> <<>>]]
  /\ cli = [t \in 1..NSockets |-> [pc |-> "idle", suffix |-> FALSE, id |-> 0]]
  /\ app = [g_rpmsg_id |-> 0]
  /\ net = <<>>
  /\ cb = <<>>
  /\ snd = <<>>
  /\ rcv = <<>>
  /\ acc = <<>>
  /\ srv = InitSrv

\* rpmsg_socket_setaddr up to the load of g_rpmsg_id: called by bind and by
\* the connect of a datagram socket with suffix false, by the connect of a
\* stream socket with suffix true.
rpmsg_socket_setaddr(t, suffix) ==
  /\ cli[t].pc = "idle"
  /\ IF suffix
       THEN /\ cli' = [cli EXCEPT ![t] = [pc |-> "inc", suffix |-> TRUE,
                                          id |-> app.g_rpmsg_id]]
            /\ conn' = conn
       ELSE /\ cli' = [cli EXCEPT ![t].pc = "done"]
            /\ conn' = [conn EXCEPT ![t].nameid = <<>>]
  /\ UNCHANGED <<cfg, net, cb, snd, rcv, app, srv, acc>>

\* The store of g_rpmsg_id++ and the snprintf of the value loaded.
SetaddrStore(t) ==
  /\ cli[t].pc = "inc"
  /\ app' = [app EXCEPT !.g_rpmsg_id = cli[t].id + 1]
  /\ conn' = [conn EXCEPT ![t].nameid = <<":", cli[t].id>>]
  /\ cli' = [cli EXCEPT ![t].pc = "done"]
  /\ UNCHANGED <<cfg, net, cb, snd, rcv, srv, acc>>

NextSetaddr ==
  \/ \E t \in 1..NSockets : \E suffix \in BOOLEAN :
       rpmsg_socket_setaddr(t, suffix)
  \/ \E t \in 1..NSockets : SetaddrStore(t)

SpecSetaddr == InitSetaddr /\ [][NextSetaddr]_vars

(***************************************************************************)
(* Blocking datagram sendmsg on side 1 against a receiver on side 2 that   *)
(* sends nothing: the receive buffer is the smallest in which a datagram   *)
(* that fits the window can be larger than what is left of the window      *)
(* after half of it was used.                                              *)
(***************************************************************************)
BlockRxBuf == 26
BlockMaxDgrams == 2
\* The payload lengths sent: the largest that fits the window, and one less.
BlockLens == {BlockRxBuf - HDR - LENPFX - 1, BlockRxBuf - HDR - LENPFX}

\* The counters keep BlockPosBits bits: space + sizeof(*msg) of
\* rpmsg_socket_send_single must not wrap where the uint32_t does not.
BlockPosBits == 6

InitDgramBlock ==
  /\ cfg = [type |-> "DGRAM", rxbuf |-> BlockRxBuf, ipcsize |-> BlockRxBuf,
            maxsend |-> <<0, 0>>, maxrecv |-> <<0, 0>>,
            maxdg |-> <<BlockMaxDgrams, 0>>, posbits |-> BlockPosBits]
  /\ conn = [s \in {1, 2} |-> InitConn(BlockRxBuf)]
  /\ net = [s \in {1, 2} |->
       <<SyncMsg(SyncSize(InitConn(BlockRxBuf)), Cred(Peer(s)))>>]
  /\ cb = [s \in {1, 2} |-> [pc |-> "idle", msg |-> NoMsg]]
  /\ snd = [s \in {1, 2} |-> SndIdle]
  /\ rcv = [s \in {1, 2} |-> RcvIdle]
  /\ app = [s \in {1, 2} |-> InitApp]
  /\ srv = InitSrv
  /\ acc = <<>>
  /\ cli = <<>>

NextDgramBlock ==
  \/ \E n \in BlockLens : SendMsg(1, n, FALSE)
  \/ DgSendSpace(1)
  \/ SendSemWait(1)
  \/ DgSendFill(1)
  \/ DgSendXmit(1)
  \/ SendDone(1)
  \/ \E nonblock \in BOOLEAN : DgRecvMsg(2, BlockRxBuf, nonblock, 0)
  \/ RecvSemWait(2)
  \/ RecvRelock(2)
  \/ RecvWakeup(2)
  \/ RecvAck(2)
  \/ \E s \in Sides : EptCbSync(s)
  \/ \E s \in Sides : EptCbAck(s)
  \/ \E s \in Sides : EptCbData(s)

SpecDgramBlock == InitDgramBlock /\ [][NextDgramBlock]_vars

(***************************************************************************)
(* The two ways a DATA frame reaches recvmsg, side by side: the same frame *)
(* is in flight to both sides; on side 1 a blocking recvmsg is asleep      *)
(* when rpmsg_socket_ept_cb runs (the direct copy to conn->recvdata), on   *)
(* side 2 the callback fills the circular buffer and recvmsg is called     *)
(* afterwards.  cfg.ulen is the length of the user buffer of both calls.   *)
(***************************************************************************)
\* The frame sendmsg makes of n payload bytes on a connection with its
\* window open.
DeliverFrame(type, n) ==
  LET c == [InitConn(DgramRxBuf) EXCEPT !.sendsize = DgramRxBuf]
  IN IF type = "STREAM"
       THEN StreamFrame(c, Bytes(0, n), 0, HDR + DgramTxPayload)
       ELSE DgramFrame(c, Bytes(0, n), HDR + DgramTxPayload)

InitDeliver ==
  \E type \in {"STREAM", "DGRAM"}, ulen \in 0..MaxRecvLen :
    \E n \in (IF type = "STREAM" THEN 1 ELSE 0)..MaxDgramLen :
      /\ cfg = [type |-> type, rxbuf |-> DgramRxBuf,
                ipcsize |-> HDR + DgramTxPayload, maxsend |-> <<0, 0>>,
                maxrecv |-> <<1, 1>>, maxdg |-> <<0, 0>>, ulen |-> ulen]
      /\ conn = [s \in {1, 2} |-> InitConn(DgramRxBuf)]
      /\ net = [s \in {1, 2} |->
           <<SyncMsg(SyncSize(InitConn(DgramRxBuf)), Cred(Peer(s))),
             DeliverFrame(type, n)>>]
      /\ cb = [s \in {1, 2} |-> [pc |-> "idle", msg |-> NoMsg]]
      /\ snd = [s \in {1, 2} |-> SndIdle]
      /\ rcv = [s \in {1, 2} |-> RcvIdle]
      /\ app = [s \in {1, 2} |-> InitApp]
      /\ srv = InitSrv
      /\ acc = <<>>
      /\ cli = <<>>

\* recvmsg of side s with the user buffer of the run.
DeliverRecv(s, nonblock) ==
  \/ RecvMsg(s, cfg.ulen, nonblock)
  \/ \E g \in Garbage : DgRecvMsg(s, cfg.ulen, nonblock, g)

NextDeliver ==
  \/ \E s \in Sides : EptCbSync(s)
  \/ conn[1].connected /\ net[1] # <<>> /\ DeliverRecv(1, FALSE)
  \/ rcv[1].pc = "wait" /\ EptCbAck(1)
  \/ EptCbAck(2)
  \/ \E s \in Sides : EptCbData(s)
  \/ /\ conn[2].connected /\ net[2] = <<>> /\ cb[2].pc = "idle"
     /\ conn[2].recvpos = 0
     /\ \E nonblock \in BOOLEAN : DeliverRecv(2, nonblock)
  \/ \E s \in Sides : RecvSemWait(s)
  \/ \E s \in Sides : RecvRelock(s)
  \/ \E s \in Sides : RecvWakeup(s)

SpecDeliver == InitDeliver /\ [][NextDeliver]_vars

(***************************************************************************)
(* A stream client whose peer processor goes and comes again: the device   *)
(* is destroyed and created, the callbacks of the client stay registered,  *)
(* and the listener of the restarted processor answers the client's new    *)
(* endpoint with a fresh child.  The client sends, the peer receives.      *)
(***************************************************************************)
RestartMaxSend == 3

InitRestart ==
  /\ cfg = [type |-> "STREAM", rxbuf |-> StreamRxBuf,
            ipcsize |-> HDR + StreamTxPayload,
            maxsend |-> <<RestartMaxSend, 0>>,
            maxrecv |-> <<0, RestartMaxSend>>, maxdg |-> <<0, 0>>]
  /\ conn = [s \in {1, 2} |->
       IF s = 1
         THEN [InitConn(StreamRxBuf) EXCEPT !.reg = {"created", "destroy"}]
         ELSE [InitConn(StreamRxBuf) EXCEPT
                 !.backlog = -2, !.reg = {"destroy"}, !.connected = TRUE,
                 !.sendsize = SyncSize(InitConn(StreamRxBuf)),
                 !.cred = Cred(1)]]
  /\ net = [s \in {1, 2} |->
       IF s = 1 THEN <<SyncMsg(SyncSize(InitConn(StreamRxBuf)), Cred(2))>>
                ELSE <<>>]
  /\ cb = [s \in {1, 2} |-> [pc |-> "idle", msg |-> NoMsg]]
  /\ snd = [t \in {1, 2} |-> SndIdle]
  /\ rcv = [s \in {1, 2} |-> RcvIdle]
  /\ app = [s \in {1, 2} |-> InitApp]
  /\ srv = [InitSrv EXCEPT !.listening = TRUE, !.backlog = 1,
                           !.reg = {"match", "bind"}]
  /\ acc = [t \in {1} |-> AccIdle]
  /\ cli = [c \in {1} |-> CliRet(EINPROGRESS, TRUE)]

\* The peer's processor restarts: the client's endpoint has been destroyed
\* with the device, and with the processor go the child connection that
\* lived on it and every frame on the way in either direction.
RemoteRestart ==
  /\ ~conn[1].rdev
  /\ conn[2].life = "live" /\ conn[2].backlog = -2
  /\ conn' = [conn EXCEPT ![2].life = "none"]
  /\ net' = [s \in DOMAIN net |-> <<>>]
  /\ cb' = [cb EXCEPT ![2] = [pc |-> "idle", msg |-> NoMsg]]
  /\ snd' = [snd EXCEPT ![2] = SndIdle]
  /\ rcv' = [rcv EXCEPT ![2] = RcvIdle]
  /\ acc' = [t \in DOMAIN acc |-> AccIdle]
  /\ UNCHANGED <<cfg, app, srv, cli>>

\* The child of the restarted processor has been handed out by accept or
\* is the one the run began with.
Accepted(s) == conn[s].life = "live" /\ conn[s].backlog = -2

NextRestart ==
  \/ \E n \in 1..MaxMsg : SendMsg(1, n, FALSE)
  \/ SendSpace(1)
  \/ SendSemWait(1)
  \/ SendFill(1)
  \/ SendXmit(1)
  \/ SendDone(1)
  \/ Accepted(2) /\ RecvMsg(2, MaxRecvLen, TRUE)
  \/ \E s \in Sides : RecvWakeup(s)
  \/ \E s \in Sides : RecvAck(s)
  \/ \E s \in Sides : EptCbSync(s)
  \/ \E s \in Sides : EptCbAck(s)
  \/ \E s \in Sides : EptCbData(s)
  \/ srv.pollin = 0 /\ DeviceDestroy(1)
  \/ RemoteRestart
  \/ DeviceCreated(1)
  \/ NsBind(1)
  \/ NsBound(1)
  \/ Accept(1, TRUE)
  \/ AcceptPop(1)
  \/ AcceptDone(1)

SpecRestart == InitRestart /\ [][NextRestart]_vars

(***************************************************************************)
(* The counters of one direction of a stream across the wrap of the        *)
(* uint32_t: conn[1] is the sender (sendsize, sendpos, ackpos), conn[2]    *)
(* the receiver (recvpos, lastpos), net[1] the acknowledgements on their   *)
(* way.  app keeps the same four counts, and the positions of the frames   *)
(* in flight, as numbers without a width.  The connection has carried      *)
(* base bytes before the run begins.                                       *)
(***************************************************************************)
WrapRxBuf == 4
\* The bytes the run carries beyond the wrap.
WrapCarry == 6

InitWrap ==
  /\ cfg = [type |-> "STREAM", rxbuf |-> WrapRxBuf,
            ipcsize |-> HDR + StreamTxPayload, maxsend |-> <<0, 0>>,
            maxrecv |-> <<0, 0>>, maxdg |-> <<0, 0>>]
  /\ \E base \in (Wrap - WrapRxBuf)..(Wrap - 1) :
       /\ conn = [s \in {1, 2} |->
            [InitConn(WrapRxBuf) EXCEPT
               !.connected = TRUE, !.sendsize = SyncSize(InitConn(WrapRxBuf)),
               !.sendpos = base, !.ackpos = base,
               !.recvpos = base, !.lastpos = base]]
       /\ app = [sendpos |-> base, ackpos |-> base, recvpos |-> base,
                 lastpos |-> base, pos |-> <<>>]
  /\ net = [s \in {1, 2} |-> <<>>]
  /\ cb = [s \in {1, 2} |-> [pc |-> "idle", msg |-> NoMsg]]
  /\ snd = [s \in {1, 2} |-> SndIdle]
  /\ rcv = [s \in {1, 2} |-> RcvIdle]
  /\ srv = InitSrv
  /\ acc = <<>>
  /\ cli = <<>>

\* rpmsg_socket_send_continuous, one block of a sendmsg of n bytes:
\* block = MIN(len - written, space), conn->sendpos += msg->len.
WrapSend(n) ==
  LET block == MIN(n, rpmsg_socket_get_space(conn[1]))
  IN /\ block > 0
     /\ app.sendpos + block < Wrap + WrapCarry
     /\ conn' = [conn EXCEPT ![1].sendpos = U32(@ + block)]
     /\ app' = [app EXCEPT !.sendpos = @ + block]
     /\ UNCHANGED <<cfg, net, cb, snd, rcv, srv, acc, cli>>

\* rpmsg_socket_recvmsg of len bytes: conn->recvpos += ret, of the bytes
\* that have arrived.
WrapRecv(len) ==
  LET ret == MIN(len, app.sendpos - app.recvpos)
  IN /\ ret > 0
     /\ conn' = [conn EXCEPT ![2].recvpos = U32(@ + ret)]
     /\ app' = [app EXCEPT !.recvpos = @ + ret]
     /\ UNCHANGED <<cfg, net, cb, snd, rcv, srv, acc, cli>>

\* rpmsg_socket_wakeup: past the threshold lastpos takes recvpos, and the
\* acknowledgement carries it.
WrapWakeup ==
  /\ WakeupNeeded(conn[2])
  /\ conn' = [conn EXCEPT ![2].lastpos = conn[2].recvpos]
  /\ net' = [net EXCEPT ![1] = Append(@, DataMsg(conn[2].recvpos, 0, <<>>))]
  /\ app' = [app EXCEPT !.lastpos = app.recvpos,
                        !.pos = Append(@, app.recvpos)]
  /\ UNCHANGED <<cfg, cb, snd, rcv, srv, acc, cli>>

\* rpmsg_socket_ept_cb, DATA: conn->ackpos = msg->pos.
WrapAck ==
  /\ net[1] # <<>>
  /\ conn' = [conn EXCEPT ![1].ackpos = AckPos(conn[1], Head(net[1]))]
  /\ net' = [net EXCEPT ![1] = Tail(@)]
  /\ app' = [app EXCEPT !.ackpos = Head(app.pos), !.pos = Tail(@)]
  /\ UNCHANGED <<cfg, cb, snd, rcv, srv, acc, cli>>

NextWrap ==
  \/ \E n \in 1..WrapRxBuf : WrapSend(n)
  \/ \E len \in 1..WrapRxBuf : WrapRecv(len)
  \/ WrapWakeup
  \/ WrapAck

SpecWrap == InitWrap /\ [][NextWrap]_vars

(***************************************************************************)
(* Poll on a connection that carries data and is torn down, and poll on    *)
(* the listening socket.  Sides 1 and 2 are a client and its accepted      *)
(* peer, the client's SYNC still on its way; side 3 is a second client,    *)
(* whose child, side 4, the listener queues.  The setup of poll looks at   *)
(* the flags one after the other, each under its own lock, and callbacks   *)
(* run in between: seen collects what it has found.  The listener and the  *)
(* pair share nothing, so the run takes them one after the other: first    *)
(* the listener with its poll and accept, then the pair.                   *)
(***************************************************************************)
InitPollData ==
  /\ cfg = [type |-> "STREAM", rxbuf |-> StreamRxBuf,
            ipcsize |-> HDR + StreamTxPayload, maxsend |-> <<2, 1>>,
            maxrecv |-> <<1, 2>>, maxdg |-> <<0, 0>>]
  /\ conn = [s \in 1..4 |->
       CASE s = 1 -> [InitConn(StreamRxBuf) EXCEPT
                        !.reg = {"created", "destroy"}]
         [] s = 2 -> [InitConn(StreamRxBuf) EXCEPT
                        !.backlog = -2, !.reg = {"destroy"},
                        !.connected = TRUE,
                        !.sendsize = SyncSize(InitConn(StreamRxBuf)),
                        !.cred = Cred(1)]
         [] s = 3 -> [InitConn(0) EXCEPT !.rdev = FALSE, !.nept = 0]
         [] OTHER -> [InitConn(0) EXCEPT !.rdev = FALSE, !.nept = 0,
                                         !.life = "none"]]
  /\ net = [s \in 1..4 |->
       IF s = 1 THEN <<SyncMsg(SyncSize(InitConn(StreamRxBuf)), Cred(2))>>
                ELSE <<>>]
  /\ cb = [s \in 1..4 |-> [pc |-> "idle", msg |-> NoMsg]]
  /\ snd = [t \in 1..4 |-> SndIdle]
  /\ rcv = [s \in 1..4 |-> RcvIdle]
  /\ app = [s \in 1..4 |-> InitApp]
  /\ srv = [InitSrv EXCEPT !.listening = TRUE, !.backlog = 1,
                           !.reg = {"match", "bind"}]
  /\ acc = [t \in {1} |-> AccIdle]
  /\ cli = [c \in {1, 3} |->
              IF c = 1 THEN CliRet(EINPROGRESS, TRUE) ELSE CliIdle]

\* rpmsg_socket_poll, setup, after the slot was bound, on a socket that is
\* not listening: the connected flag chooses the branch; POLLHUP is looked
\* at without a lock, the send space under sendlock, the receive buffer
\* under recvlock.
PollLook(s, i) ==
  LET c == conn[s]
      fd == c.fds[i]
  IN /\ c.life = "live"
     /\ fd.pc \in {"setup", "space", "buf"}
     /\ fd.pc = "space" => ~SendLocked(s)
     /\ conn' = [conn EXCEPT ![s].fds[i] =
          CASE fd.pc = "setup" ->
                 [fd EXCEPT !.seen = PollEventset(c) \cap {"POLLHUP"},
                            !.pc = IF c.connected THEN "space" ELSE "notify"]
            [] fd.pc = "space" ->
                 [fd EXCEPT !.seen = @ \cup (PollEventset(c) \cap {"POLLOUT"}),
                            !.pc = "buf"]
            [] OTHER ->
                 [fd EXCEPT !.seen = @ \cup (PollEventset(c) \cap {"POLLIN"}),
                            !.pc = "notify"]]
     /\ UNCHANGED <<cfg, net, cb, snd, rcv, app, srv, acc, cli>>

\* rpmsg_socket_poll_notify(conn, eventset) at the end of the setup.
PollNotifySeen(s, i) ==
  /\ conn[s].life = "live"
  /\ conn[s].fds[i].pc = "notify"
  /\ conn' = [conn EXCEPT ![s] = rpmsg_socket_poll_notify(
                [@ EXCEPT !.fds[i].pc = "wait", !.fds[i].seen = {}],
                conn[s].fds[i].seen)]
  /\ UNCHANGED <<cfg, net, cb, snd, rcv, app, srv, acc, cli>>

\* rpmsg_socket_poll on the listening socket: the slot is bound; then, if
\* the listener was closed, poll returns -ECONNRESET with nothing notified,
\* else POLLIN is notified if a connection is queued; and the teardown.
SrvPollSetup(events) ==
  /\ srv.life = "live"
  /\ \E i \in DOMAIN srv.fds : ~srv.fds[i].used
  /\ srv' = [srv EXCEPT !.fds[FreeSlot(srv.fds)] =
        [NoFd EXCEPT !.used = TRUE, !.pc = "setup", !.events = events]]
  /\ UNCHANGED <<cfg, conn, net, cb, snd, rcv, app, acc, cli>>

SrvPollNotify(i) ==
  /\ srv.life = "live"
  /\ srv.fds[i].pc = "setup"
  /\ srv' = [srv EXCEPT !.fds =
        IF srv.backlog = -1 THEN [@ EXCEPT ![i].pc = "wait"]
        ELSE poll_notify([@ EXCEPT ![i].pc = "wait"],
                         IF srv.queue # <<>> THEN {"POLLIN"} ELSE {})]
  /\ UNCHANGED <<cfg, conn, net, cb, snd, rcv, app, acc, cli>>

SrvPollTeardown(i) ==
  /\ srv.life = "live"
  /\ srv.fds[i].pc = "wait"
  /\ srv' = [srv EXCEPT !.fds[i] = NoFd]
  /\ UNCHANGED <<cfg, conn, net, cb, snd, rcv, app, acc, cli>>

\* The listener's part of the run is over: the child was accepted and the
\* poll on the listener torn down.
ListenerDone ==
  /\ conn[4].life = "live" /\ conn[4].backlog = -2
  /\ acc[1].pc = "idle" /\ cli[3].pc = "idle"
  /\ srv.fds = NoFds
  /\ net[3] = <<>> /\ net[4] = <<>>

NextPollData ==
  \/ ~ListenerDone /\ Connect(3, TRUE)
  \/ ~ListenerDone /\ ConnectDone(3)
  \/ ~ListenerDone /\ NsBind(3)
  \/ ~ListenerDone /\ NsBound(3)
  \/ ~ListenerDone /\ \E s \in {3, 4} : EptCbSync(s)
  \/ ~ListenerDone /\ \E events \in {{}, {"POLLIN"}} : SrvPollSetup(events)
  \/ ~ListenerDone /\ \E i \in 1..NPollWaiters : SrvPollNotify(i)
  \/ ~ListenerDone /\ \E i \in 1..NPollWaiters : SrvPollTeardown(i)
  \/ ~ListenerDone /\ Accept(1, TRUE)
  \/ ~ListenerDone /\ AcceptPop(1)
  \/ ~ListenerDone /\ AcceptSync(1)
  \/ ~ListenerDone /\ AcceptDone(1)
  \/ ListenerDone /\ SendMsg(1, MaxMsg, TRUE)
  \/ ListenerDone /\ SendMsg(2, 1, TRUE)
  \/ ListenerDone /\ \E t \in {1, 2} : SendSpace(t)
  \/ ListenerDone /\ \E t \in {1, 2} : SendFill(t)
  \/ ListenerDone /\ \E t \in {1, 2} : SendXmit(t)
  \/ ListenerDone /\ \E t \in {1, 2} : SendDone(t)
  \/ ListenerDone /\ \E s \in {1, 2} : RecvMsg(s, MaxRecvLen, TRUE)
  \/ ListenerDone /\ \E s \in {1, 2} : RecvWakeup(s)
  \/ ListenerDone /\ \E s \in {1, 2} : RecvAck(s)
  \/ ListenerDone /\ EptCbSync(1)
  \/ ListenerDone /\ \E s \in {1, 2} : EptCbAck(s)
  \/ ListenerDone /\ \E s \in {1, 2} : EptCbData(s)
  \/ /\ ListenerDone
     /\ conn[1].fds = NoFds
     /\ \E events \in {{}, {"POLLIN"}, {"POLLOUT"}} : PollSetup(1, events)
  \/ ListenerDone /\ \E i \in 1..NPollWaiters : PollLook(1, i)
  \/ ListenerDone /\ \E i \in 1..NPollWaiters : PollNotifySeen(1, i)
  \/ ListenerDone /\ \E i \in 1..NPollWaiters : PollTeardown(1, i)
  \/ ListenerDone /\ CloseConn(2)
  \/ ListenerDone /\ NsUnbind(1)
  \/ ListenerDone /\ DeviceDestroy(1)
  \/ ListenerDone /\ \E s \in {1, 2} : Discard(s)

SpecPollData == InitPollData /\ [][NextPollData]_vars

(***************************************************************************)
(* Properties of the stream data path, checked under Spec.                 *)
(***************************************************************************)
\* Nothing in flight and no operation in progress.
Quiescent ==
  \A s \in Sides :
    /\ net[s] = <<>>
    /\ cb[s].pc = "idle"
    /\ snd[s].pc = "idle"
    /\ rcv[s].pc = "idle"

\* C1: on both sides, in every reachable state, the unacknowledged bytes
\* sendpos - ackpos (as the code computes them, in unsigned arithmetic) lie
\* between 0 and sendsize, so that the send space is never negative.
C1_SendWindow ==
  \A s \in Sides : U32(conn[s].sendpos - conn[s].ackpos) <= conn[s].sendsize

\* C2: on a stream the bytes recvmsg has returned so far are a prefix of the
\* bytes the peer's sendmsg calls have accepted: byte k of the stream
\* carries k, so the receiver must have got 1, 2, 3, ... with no byte
\* missing, repeated or out of place, and no more than were sent.
C2_StreamPrefix ==
  \A s \in Sides :
    /\ app[s].got = Bytes(0, Len(app[s].got))
    /\ Len(app[s].got) <= app[Peer(s)].sent + snd[Peer(s)].written

\* C3: at every quiescent point of a stream the bytes the peer's sendmsg
\* calls returned equal the bytes recvmsg consumed plus the bytes FIONREAD
\* reports, the used count of the circular buffer.
C3_QuiescentCount ==
  Quiescent =>
    \A s \in Sides :
      app[Peer(s)].sent = Len(app[s].got) + circbuf_used(conn[s])

\* C6: ackpos never decreases: in every step on every side its value after
\* the step is at least its value before.
C6_AckposMonotone ==
  [][\A s \in Sides : conn'[s].ackpos >= conn[s].ackpos]_vars

\* C10: a blocking stream sendmsg stalled on a full window wakes once the
\* peer has read half of the window.  In finite form: there is no state in
\* which the sender of side s sleeps on sendsem with no post pending and a
\* full window, the peer has consumed more than half a window beyond the
\* sender's ackpos, and nothing that could still wake the sender is left:
\* no frame in flight to s, no callback of s running, and the peer's
\* threads outside sendmsg and recvmsg or asleep with no post pending.
Stalled(s) ==
  /\ snd[s].pc = "wait"
  /\ conn[s].sendsem = 0
  /\ U32(conn[s].sendpos - conn[s].ackpos) = conn[s].sendsize

PeerReadHalf(s) ==
  2 * U32(conn[Peer(s)].recvpos - conn[s].ackpos) > conn[s].sendsize

NothingPending(s) ==
  /\ net[s] = <<>>
  /\ cb[s].pc = "idle"
  /\ \/ snd[Peer(s)].pc = "idle"
     \/ snd[Peer(s)].pc = "wait" /\ conn[Peer(s)].sendsem = 0
  /\ \/ rcv[Peer(s)].pc = "idle"
     \/ rcv[Peer(s)].pc = "wait" /\ conn[Peer(s)].recvsem = 0

C10_StalledSenderWakes ==
  \A s \in Sides : ~(Stalled(s) /\ PeerReadHalf(s) /\ NothingPending(s))

\* C11: after a sender has transmitted all its bytes and the peer has
\* consumed all of them, the sender's ackpos eventually equals its sendpos,
\* even when the peer sends no data of its own.  In finite form: in a
\* quiescent state in which the peer of s has consumed every byte s has
\* sent, and has sent nothing itself, ackpos of s equals sendpos of s
\* (nothing is left that could still move ackpos).
AllConsumed(s) ==
  /\ Quiescent
  /\ app[s].sent > 0
  /\ Len(app[Peer(s)].got) = app[s].sent
  /\ circbuf_used(conn[Peer(s)]) = 0
  /\ conn[Peer(s)].sendpos = 0

C11_AllAcked ==
  \A s \in Sides : AllConsumed(s) => conn[s].ackpos = conn[s].sendpos

\* C12: when recvmsg calls have consumed N bytes on a connection whose peer
\* has the send size S, the standalone acknowledgements the receiver has
\* transmitted differ from 2N \div S by at most 1.  The receive is taken
\* as contiguous: the receiver has sent no data of its own, whose frames
\* would carry acknowledgements too.
C12_AckCountTwoNOverS ==
  \A s \in Sides :
    (rcv[s].pc = "idle" /\ conn[Peer(s)].sendsize > 0 /\ conn[s].sendpos = 0
       /\ snd[s].pc = "idle") =>
      LET N == Len(app[s].got)
          S == conn[Peer(s)].sendsize
          d == app[s].acks - (2 * N) \div S
      IN d \in {-1, 0, 1}

\* C12, amended: every standalone acknowledgement comes from a recvmsg call
\* of its own that returned data, so there are never more of them than
\* bytes consumed; and as long as the receiver has sent no data of its own,
\* more than S \div 2 bytes are consumed between one acknowledgement and
\* the next: acks * (S \div 2 + 1) <= N.
C12_AckCount ==
  \A s \in Sides :
    LET N == Len(app[s].got)
        S == conn[s].bufsize
    IN /\ app[s].acks <= N
       /\ conn[s].sendpos = 0 => app[s].acks * (S \div 2 + 1) <= N

\* C12, its case: a receiver that has sent nothing has consumed four bytes
\* and acknowledged twice.
C12_Witness ==
  \E s \in Sides :
    /\ conn[s].sendpos = 0
    /\ Len(app[s].got) >= 4
    /\ app[s].acks = 2

\* C13: once a connection has received a SYNC, getsockopt(SOL_SOCKET,
\* SO_PEERCRED) returns exactly the pid, uid and gid the peer placed in
\* it, whatever DATA frames, sends and receives have happened since.
C13_PeerCred ==
  \A s \in Sides :
    conn[s].connected =>
      rpmsg_socket_getsockopt(conn[s], TRUE, UCRED_SIZE) =
        [ret |-> OK, value |-> Cred(Peer(s))]

\* C13, its case: a connected side has sent and received data since its
\* SYNC, and the call returns the peer's credentials.
C13_Witness ==
  \E s \in Sides :
    /\ conn[s].connected
    /\ app[s].sent > 0
    /\ Len(app[s].got) > 0
    /\ rpmsg_socket_getsockopt(conn[s], TRUE, UCRED_SIZE).value = Cred(Peer(s))

\* C14: in every reachable state the connected flag of a connection is set
\* if and only if it has received a SYNC frame, and whenever the flag is set
\* sendsize > 0.  In these runs one SYNC is sent to every side, so a side
\* has received a SYNC exactly when none is in flight to it any more.
SyncReceived(s) ==
  \A i \in 1..Len(net[s]) : net[s][i].cmd # RPMSG_SOCKET_CMD_SYNC

C14_ConnectedIffSync ==
  \A s \in Sides :
    /\ conn[s].connected <=> SyncReceived(s)
    /\ conn[s].connected => conn[s].sendsize > 0

\* C14, its case: one side has received its SYNC, is connected and has a
\* send size, while the SYNC of the other is still in flight.
C14_Witness ==
  \E s \in Sides :
    /\ SyncReceived(s) /\ conn[s].connected /\ conn[s].sendsize > 0
    /\ ~SyncReceived(Peer(s)) /\ ~conn[Peer(s)].connected

\* C24: after a recvmsg that delivered at least one byte on a live
\* connection, a standalone DATA frame of length zero carrying pos =
\* recvpos is sent if and only if recvpos - lastpos exceeds half of the
\* capacity of the receive buffer, and then lastpos becomes recvpos;
\* otherwise no frame is sent and lastpos stays.  The decision is one
\* step (it sends nothing), the transmission of the frame the next step
\* of the thread.
C24_AckWhenHalfRead ==
  [][\A s \in Sides :
       /\ (rcv[s].pc = "out" /\ rcv'[s].pc # "out") =>
            /\ net' = net
            /\ (rcv[s].ret > 0 /\ conn[s].rdev /\ ~conn[s].unbind) =>
                 IF 2 * U32(conn[s].recvpos - conn[s].lastpos) > conn[s].bufsize
                   THEN /\ conn'[s].lastpos = conn[s].recvpos
                        /\ rcv'[s].pc = "ack"
                        /\ rcv'[s].pos = conn[s].recvpos
                   ELSE /\ conn'[s].lastpos = conn[s].lastpos
                        /\ rcv'[s].pc = "idle"
       /\ (rcv[s].pc = "ack" /\ rcv'[s].pc # "ack"
              /\ conn[s].rdev /\ ~conn[s].unbind) =>
            /\ net'[Peer(s)] =
                 Append(net[Peer(s)], DataMsg(conn[s].recvpos, 0, <<>>))
            /\ rcv'[s].pc = "idle"]_vars

\* C24, its case: a recvmsg that left recvpos - lastpos at half the
\* capacity or less has sent nothing, and a later one has sent the
\* acknowledgement, which is in flight and carries recvpos = lastpos.
C24_Witness ==
  \E s \in Sides :
    /\ rcv[s].pc = "idle"
    /\ app[s].acks = 1
    /\ Len(app[s].got) > conn[s].bufsize \div 2 + 1
    /\ conn[s].lastpos = conn[s].recvpos
    /\ net[Peer(s)] # <<>>
    /\ net[Peer(s)][Len(net[Peer(s)])] = DataMsg(conn[s].recvpos, 0, <<>>)

\* C25: under any interleaving of a thread in recvmsg and
\* rpmsg_socket_wakeup with a thread in a send path, lastpos is never
\* greater than the largest pos the peer has been sent in a DATA frame.
\* The acknowledgement rpmsg_socket_wakeup has decided on and is about to
\* transmit counts as sent.
C25_LastposIsSent ==
  \A s \in Sides :
    conn[s].lastpos <=
      MAX(conn[s].sentpos, IF rcv[s].pc = "ack" THEN rcv[s].pos ELSE 0)

\* C27: with both endpoints running the protocol the credit scheme
\* prevents the overflow of the receive buffer: whenever the inbound
\* callback hands bytes to circbuf_write, all of them fit, so that the
\* buffer grows by exactly the bytes given; and the bytes held never
\* exceed the capacity.
C27_NoOverflow ==
  [][\A s \in Sides :
       /\ Len(conn'[s].recvbuf) <= conn'[s].bufsize
       /\ (cb[s].pc = "data" /\ cb'[s].pc = "idle") =>
            Len(conn'[s].recvbuf) =
              Len(conn[s].recvbuf) + Len(Rest(conn[s], cb[s].msg))]_vars

\* C16: a datagram sendmsg on a connected socket whose endpoint lives
\* returns EFBIG exactly when the payload length plus the DATA header plus
\* the length prefix exceeds the peer's sendsize, and a call that returns
\* EFBIG transmits nothing and leaves the connection as it was.
C16_DatagramTooBig ==
  [][\A s \in Sides, n \in DgramLens :
       (SendMsg(s, n, TRUE) /\ conn[s].connected /\ ~EptDead(conn[s])) =>
         /\ (n + HDR + LENPFX > conn[s].sendsize)
              <=> (snd'[s].pc = "ret" /\ snd'[s].ret = EFBIG)
         /\ conn' = conn
         /\ net' = net]_vars

(***************************************************************************)
(* Properties of the teardown, checked under SpecReset.                    *)
(***************************************************************************)
\* The unbind flag of side s is set or its endpoint is gone.
Gone(s) == conn[s].unbind \/ ~conn[s].rdev

\* A call of sendmsg by thread t begins in this step.
SendCalled(t) == snd[t].pc = "idle" /\ snd'[t].pc # "idle"

PeerClosed(s) ==
  /\ conn[Peer(s)].life = "freed"
  /\ conn[s].connected
  /\ conn[s].unbind

\* recvmsg of side s returns in this step.
RecvReturns(s) == rcv[s].pc # "out" /\ rcv'[s].pc = "out"

\* C18 as stated: after the peer of a stream connection has closed, a
\* recvmsg returns bytes that were buffered or, with nothing buffered, 0,
\* whether it began after the close was seen or was blocked when it came.
C18_EofAfterClose ==
  [][\A s \in Sides :
       (RecvReturns(s) /\ PeerClosed(s)) =>
         IF rcv[s].pc = "idle" /\ conn[s].recvbuf # <<>>
           THEN rcv'[s].ret > 0
           ELSE rcv'[s].ret >= 0]_vars

\* C18, amended: a recvmsg that begins after the close was seen returns
\* the buffered bytes, oldest first, and 0 when none is buffered; a recvmsg
\* that was blocked when the close came returns ECONNRESET, unless the
\* callback had handed it data before.
C18_EofOrReset ==
  [][\A s \in Sides :
       (RecvReturns(s) /\ PeerClosed(s)) =>
         IF rcv[s].pc = "idle"
           THEN /\ rcv'[s].ret = MIN(MaxRecvLen, Len(conn[s].recvbuf))
                /\ rcv'[s].ubuf = Take(conn[s].recvbuf, rcv'[s].ret)
                /\ conn'[s].recvbuf = Drop(conn[s].recvbuf, rcv'[s].ret)
           ELSE IF conn[s].recvdata
             THEN rcv'[s].ret = ECONNRESET
             ELSE rcv'[s].ret = conn[s].recvlen]_vars

\* After the close was seen recvmsg has returned 0, bytes having been
\* delivered before.
C18_Witness ==
  \E s \in Sides :
    /\ conn[Peer(s)].life = "freed"
    /\ conn[s].unbind
    /\ rcv[s] = RcvOut(0, <<>>)
    /\ app[s].got # <<>>
    /\ conn[s].recvbuf = <<>>

\* C19: when ns_unbind or the device-destroyed teardown has hit a
\* connection, no thread stays blocked on it: a thread that waits in
\* sendmsg or in recvmsg has its semaphore posted.  And the thread woken
\* on the dead connection returns ECONNRESET; a recvmsg that was handed
\* data returns its length (here a sendmsg that had sent a part may return
\* the part as well).
C19_TeardownWakesAll ==
  [][/\ \A t \in Senders :
          /\ (snd'[t].pc = "wait" /\ Gone(Side(t))')
               => conn'[Side(t)].sendsem > 0
          /\ (snd[t].pc = "wait" /\ snd'[t].pc # "wait" /\ Gone(Side(t)))
               => /\ snd'[t].pc = "ret"
                  /\ snd'[t].ret \in {ECONNRESET, snd[t].written} \ {0}
      /\ \A s \in Sides :
          /\ (rcv'[s].pc = "wait" /\ Gone(s)') => conn'[s].recvsem > 0
          /\ (rcv[s].pc = "relock" /\ RecvReturns(s) /\ Gone(s))
               => rcv'[s].ret = IF conn[s].recvdata THEN ECONNRESET
                                                   ELSE conn[s].recvlen]_vars

(***************************************************************************)
(* Properties of the life of a connection, checked under SpecLife.         *)
(***************************************************************************)
\* C20: after the final close no callback registered with the substrate
\* refers to the freed connection, whatever came before.
C20_NoCallbackAfterClose ==
  /\ \A s \in Sides : conn[s].life = "freed" => conn[s].reg = {}
  /\ srv.life = "freed" => srv.reg = {}

(***************************************************************************)
(* Properties of the server's socket, checked under SpecServer.            *)
(***************************************************************************)
\* C21: a connection starts with reference count 1, each addref adds 1 and
\* each close removes 1, so that the count is the number of handles open;
\* and the connection is destroyed by the close of the last handle, never
\* while a handle is still open, for any number of addref calls.
C21_RefCount ==
  /\ srv.life = "live" => srv.crefs = srv.handles
  /\ srv.life = "freed" => srv.handles = 0

\* C28: the count of sendsem and of recvsem never exceeds 1, of a
\* connection's and of the server's, under any interleaving of the
\* producers that call rpmsg_socket_post: posts never stack.
C28_SemAtMostOne ==
  /\ \A s \in Sides : conn[s].sendsem <= 1 /\ conn[s].recvsem <= 1
  /\ srv.sendsem <= 1
  /\ srv.recvsem <= 1

\* C22: accept returns ECONNRESET on a listen-closed socket (a listener
\* marked closed, backlog = -1), EINVAL on a socket that is not listening
\* (the server's before listen, and a socket that never listened), and
\* EAGAIN on a non-blocking listener whose accept queue is empty at the
\* pop; and an accept that returns an error leaves the accept queue and
\* the new socket handle as they were.
C22_AcceptErrors ==
  [][\A t \in DOMAIN acc :
       /\ \A nonblock \in BOOLEAN :
            Accept(t, nonblock) =>
              /\ srv.backlog = -1 => acc'[t] = AccRet(ECONNRESET, 0)
              /\ (srv.backlog # -1 /\ ~srv.listening)
                   => acc'[t] = AccRet(EINVAL, 0)
       /\ \A s \in Sides :
            AcceptOther(t, s) => acc'[t] = AccRet(EINVAL, 0)
       /\ (AcceptPop(t) /\ acc[t].nonblock /\ srv.queue = <<>>)
            => acc'[t] = AccRet(EAGAIN, 0)
       /\ (acc[t].pc # "ret" /\ acc'[t].pc = "ret" /\ acc'[t].ret < 0)
            => /\ srv'.queue = srv.queue
               /\ acc'[t].conn = 0]_vars

(***************************************************************************)
(* Properties of connect and poll, checked under SpecPoll.                 *)
(***************************************************************************)
\* C15: a non-blocking connect does not wait; when it has returned
\* EINPROGRESS the device-created and device-destroyed callbacks are
\* registered; and on a connected socket with send space every poll waiter
\* whose setup has returned and who asked for POLLOUT has been notified of
\* it, whether it registered before the SYNC came or after.
C15_NonblockConnectPoll ==
  \A c \in DOMAIN cli :
    /\ cli[c].nonblock => cli[c].pc # "wait"
    /\ (cli[c].pc = "ret" /\ cli[c].ret = EINPROGRESS) =>
         /\ cli[c].nonblock
         /\ {"created", "destroy"} \subseteq conn[c].reg
    /\ \A i \in DOMAIN conn[c].fds :
         (/\ conn[c].connected
          /\ rpmsg_socket_get_space(conn[c]) > 0
          /\ conn[c].fds[i].pc = "wait"
          /\ "POLLOUT" \in conn[c].fds[i].events)
         => "POLLOUT" \in conn[c].fds[i].revents

\* A connect has returned EINPROGRESS, the SYNC has come since, and two
\* waiters hold POLLOUT.
C15_Witness ==
  \E c \in DOMAIN cli :
    /\ cli[c].pc = "ret"
    /\ cli[c].ret = EINPROGRESS
    /\ conn[c].connected
    /\ \A i \in DOMAIN conn[c].fds :
         /\ conn[c].fds[i].pc = "wait"
         /\ conn[c].fds[i].events = {"POLLOUT"}
         /\ "POLLOUT" \in conn[c].fds[i].revents

(***************************************************************************)
(* Properties of the datagram data path, checked under SpecDgram.          *)
(***************************************************************************)
\* A datagram as it lies in the circular buffer, and a run of them.
Encoded(payload) == LE32Bytes(Len(payload)) \o payload

RECURSIVE Flatten(_)
Flatten(dgrams) ==
  IF dgrams = <<>> THEN <<>>
  ELSE Encoded(Head(dgrams)) \o Flatten(Tail(dgrams))

\* C4: every datagram P the peer's sendmsg accepted is matched by exactly
\* one successful recvmsg, which hands back the first MIN(|P|, user_len)
\* bytes of P: the k-th delivery is that prefix of the k-th datagram sent,
\* and at a quiescent point with an empty buffer every datagram sent has
\* been delivered.
C4_DatagramMatched ==
  \A s \in Sides :
    LET sent == app[Peer(s)].dsent
        got == app[s].got
    IN /\ Len(got) <= Len(sent)
       /\ \A k \in 1..MIN(Len(got), Len(sent)) :
            got[k].data = Take(sent[k], MIN(Len(sent[k]), got[k].ulen))
       /\ (Quiescent /\ circbuf_used(conn[s]) = 0) => Len(got) = Len(sent)

\* C5: datagram receive is atomic: the receive buffer always holds whole
\* datagrams only, a run of consecutive datagrams of those the peer sent,
\* each with its length prefix and all of its payload.
C5_DatagramAtomic ==
  \A s \in Sides :
    LET sent == app[Peer(s)].dsent
    IN \E i \in 1..(Len(sent) + 1), j \in 0..Len(sent) :
         conn[s].recvbuf = Flatten(SubSeq(sent, i, j))

\* C26: every DATA frame the stream or the datagram send path transmits,
\* several threads sending on the same socket included: a frame with
\* payload (len > 0) is sent only when sendpos - ackpos < sendsize, and it
\* advances sendpos by at most the send space there is under the send lock
\* at the time; and of a datagram frame the len is total - header - 4
\* without underflow (the frame holds its length prefix and len bytes) and
\* is at most the length of the caller's payload.
C26_CreditedSend ==
  [][\A t \in Senders :
       (/\ snd[t].pc = "xmit" /\ snd'[t].pc # "xmit"
        /\ net'[Peer(Side(t))] = Append(net[Peer(Side(t))], snd[t].msg)) =>
         LET c == conn[Side(t)]
             msg == snd[t].msg
             unacked == U32(c.sendpos - c.ackpos)
         IN /\ msg.len > 0 =>
                 /\ unacked < c.sendsize
                 /\ U32(conn'[Side(t)].sendpos - c.sendpos)
                      <= c.sendsize - unacked
            /\ cfg.type = "DGRAM" =>
                 /\ Len(msg.data) = msg.len + LENPFX
                 /\ msg.len <= Len(snd[t].buf)]_vars

\* C23: every datagram recvmsg that finds a length prefix in the circular
\* buffer (the buffer holds four bytes at least, which give dglen) removes
\* exactly dglen + 4 bytes from the buffer and advances recvpos by exactly
\* dglen + 4, whatever the length of the user buffer, 0 and lengths below
\* dglen included.
C23_DatagramConsumed ==
  [][\A s \in Sides :
       (/\ rcv[s].pc = "idle" /\ rcv'[s].pc # "idle"
        /\ conn[s].connected
        /\ Len(conn[s].recvbuf) >= LENPFX) =>
         LET dglen == LE32(Take(conn[s].recvbuf, LENPFX))
         IN /\ conn'[s].recvbuf = Drop(conn[s].recvbuf, dglen + LENPFX)
            /\ conn'[s].recvpos = U32(conn[s].recvpos + dglen + LENPFX)]_vars

(***************************************************************************)
(* Properties of listen, connect, accept and close, checked under          *)
(* SpecListen.                                                             *)
(***************************************************************************)
\* C7: when the last reference to the listening socket is closed, every
\* thread blocked in accept returns ECONNRESET.  In finite form: once the
\* close has run, a thread still asleep in accept has been given its
\* wake-up, that is, the listener is marked closed (backlog = -1) and the
\* server's recvsem is posted.
C7_CloseWakesAccept ==
  \A t \in DOMAIN acc :
    (srv.life = "freed" /\ acc[t].pc = "wait") =>
      (srv.backlog = -1 /\ srv.recvsem > 0)

C9_RejectedConnectFails ==
  \A c \in DOMAIN cli :
    (c \in srv.rejected /\ cli[c].pc = "ret") => cli[c].ret = ECONNRESET

(***************************************************************************)
(* Properties of the locks.                                                *)
(***************************************************************************)
\* C29: a thread that acquires a lock holds only locks of the same
\* connection that come before it in the order recvlock, sendlock,
\* polllock (so recvlock is never acquired while sendlock is held), and no
\* set of threads is ever deadlocked on the locks, each of them blocked on
\* a mutex that one of them holds.
C29_LockOrder ==
  LET rank == [l \in {"recvlock", "sendlock", "polllock"} |->
                 IF l = "recvlock" THEN 1 ELSE IF l = "sendlock" THEN 2 ELSE 3]
      want(t) == Head(Thread(t).prog).obj
  IN /\ \A t \in LockThreads :
          AtOp(t, "lock") =>
            \A h \in Thread(t).held :
              h[1] = want(t)[1] /\ rank[h[2]] < rank[want(t)[2]]
     /\ \A D \in SUBSET LockThreads :
          D # {} =>
            ~\A t \in D :
               Blocked(t) /\ \E u \in D : want(t) \in Thread(u).held

\* A thread holds recvlock and sendlock of the connection, taken in that
\* order, and is about to take polllock, while a second thread is blocked
\* on recvlock and a third on sendlock.
C29_Witness ==
  \E t, u, v \in LockThreads :
    /\ Thread(t).held = {<<"conn", "recvlock">>, <<"conn", "sendlock">>}
    /\ AtOp(t, "lock")
    /\ Blocked(u) /\ Head(Thread(u).prog).obj = <<"conn", "recvlock">>
    /\ Blocked(v) /\ Head(Thread(v).prog).obj = <<"conn", "sendlock">>

\* C30: a thread that waits on sendsem or recvsem, in connect (called by
\* sendmsg and recvmsg on an unconnected socket), accept, sendmsg or
\* recvmsg, holds no lock of any connection.
C30_NoWaitUnderLock ==
  \A t \in LockThreads : AtOp(t, "wait") => Thread(t).held = {}

\* recvmsg waits on recvsem after it has given up recvlock, which the
\* callback now holds; sendmsg waits on sendsem and accept on the server's
\* recvsem at the same time.
C30_Witness ==
  /\ AtOp("rcv", "wait") /\ Head(rcv[1].prog).obj = <<"conn", "recvsem">>
  /\ Len(rcv[1].prog) > 1
  /\ <<"conn", "recvlock">> \in cb[1].held
  /\ AtOp("snd", "wait") /\ Len(snd[1].prog) = 1
  /\ AtOp("acc", "wait") /\ Head(acc[1].prog).obj = <<"server", "recvsem">>

\* C31: two stream connects whose connections are live at the same time
\* have distinct suffix ids, also when the two calls run at once on
\* different threads; and bind and the connect of a datagram socket leave
\* the suffix empty.
C31_DistinctSuffix ==
  \A t, u \in DOMAIN cli :
    /\ (cli[t].pc = "done" /\ ~cli[t].suffix) => conn[t].nameid = <<>>
    /\ (t # u /\ cli[t].pc = "done" /\ cli[u].pc = "done"
          /\ cli[t].suffix /\ cli[u].suffix)
         => conn[t].nameid # conn[u].nameid


\* C34: a blocking connect, and an accept, that returns success hands back a
\* connection whose SYNC has arrived (connected, sendsize > 0); a post of
\* sendsem by ns-unbind or by the destruction of the endpoint never makes
\* connect or accept report success.
C34_SuccessMeansSync ==
  /\ \A c \in DOMAIN cli :
       (cli[c].pc = "ret" /\ cli[c].ret = OK /\ ~cli[c].nonblock)
         => conn[c].sendsize > 0
  /\ \A t \in DOMAIN acc :
       (acc[t].pc = "ret" /\ acc[t].ret = OK)
         => conn[acc[t].conn].sendsize > 0


\* C36: a child connection appended to a listener's accept queue is in the
\* end returned by accept or destroyed: after the final close of the
\* listening socket no child that was queued and never accepted, nor its
\* endpoint, is still alive.
C36_NoQueuedChildLeft ==
  srv.life = "freed" =>
    \A i \in DOMAIN srv.queue :
      conn[srv.queue[i]].life # "live" /\ ~conn[srv.queue[i]].rdev


\* The bytes the sendmsg calls of the threads T have framed and handed over
\* so far, of the calls that have not yet returned.
RECURSIVE WrittenBy(_)
WrittenBy(T) ==
  IF T = {} THEN 0
  ELSE LET t == CHOOSE u \in T : TRUE
       IN (IF snd[t].pc \in {"idle", "ret"} THEN 0 ELSE snd[t].written)
          + WrittenBy(T \ {t})

\* C33: a stream sendmsg returns n > 0 exactly when n bytes were framed and
\* handed to the transport and sendpos has advanced by exactly n, and it
\* returns an error only when no byte was sent.  As a count: on every side
\* sendpos is the sum of what the sendmsg calls have returned and of what
\* the calls in progress have handed over so far.
C33_SendposCountsReturned ==
  \A s \in Sides :
    conn[s].sendpos =
      U32(app[s].sent + WrittenBy({t \in Senders : Side(t) = s}))


\* C35: a blocking datagram sendmsg whose datagram fits the window and that
\* waits for credit proceeds once the peer has consumed every datagram
\* delivered to it, also when the peer sends nothing and has consumed, since
\* its last acknowledgement, no more than half of its receive buffer.  In
\* finite form: there is no state in which the sender sleeps on sendsem
\* with no post pending, its datagram fits the window, the peer has
\* consumed all that was sent, and nothing that could still wake the
\* sender is left.
C35_DgramSenderProceeds ==
  \A s \in Sides :
    ~(/\ snd[s].pc = "wait"
      /\ conn[s].sendsem = 0
      /\ DgramTotal(Len(snd[s].buf)) <= conn[s].sendsize
      /\ conn[Peer(s)].recvpos = conn[s].sendpos
      /\ conn[Peer(s)].recvbuf = <<>>
      /\ NothingPending(s))


\* C38: for every inbound DATA frame, of a stream or a datagram socket, of
\* any payload length (the datagram of length zero included) and any length
\* of the user buffer, the delivery by the direct copy to a blocked recvmsg
\* and the delivery through the circular buffer followed by recvmsg give
\* the same result: the same bytes, the same return value, the same recvpos
\* and the same content of the buffer afterwards.  Side 1 has taken the
\* frame the first way and side 2 the second.
C38_SameDelivery ==
  (rcv[1].pc = "out" /\ rcv[2].pc \in {"out", "wait"}) =>
     /\ rcv[2].pc = "out"
     /\ rcv[2].ret = rcv[1].ret
     /\ rcv[2].ubuf = rcv[1].ubuf
     /\ conn[2].recvpos = conn[1].recvpos
     /\ conn[2].recvbuf = conn[1].recvbuf


\* C37: when the endpoint of a client was torn down by device-destroyed and
\* made again by device-created, and the SYNC of a fresh peer connection
\* has arrived, the flow-control counters of the two sides are consistent
\* again: on either side sendpos - ackpos lies within [0, sendsize], and
\* what a side counts as sent and the other has not yet counted as received
\* fits the window.  The fresh peer is the child made by
\* rpmsg_socket_ns_bind after the restart; its SYNC has arrived when
\* nothing of the handshake is left in flight.
C37_CountersConsistentAgain ==
  (/\ srv.pollin > 0
   /\ conn[1].rdev /\ conn[1].connected
   /\ conn[2].life = "live" /\ conn[2].connected
   /\ \A s \in Sides : \A i \in DOMAIN net[s] :
         net[s][i].cmd = RPMSG_SOCKET_CMD_DATA)
    => \A s \in Sides :
         /\ U32(conn[s].sendpos - conn[s].ackpos) <= conn[s].sendsize
         /\ U32(conn[s].sendpos - conn[Peer(s)].recvpos) <= conn[s].sendsize


\* C40: flow control stays correct when the 32-bit counters wrap: as long
\* as the bytes truly in flight are at most sendsize, the send-space
\* sendsize - (sendpos - ackpos) and the acknowledgement threshold
\* recvpos - lastpos, computed modulo the width, have the values unbounded
\* counters give, so the sender neither stalls nor over-sends.
C40_WrapSafe ==
  (app.sendpos - app.ackpos \in 0..conn[1].sendsize) =>
    /\ rpmsg_socket_get_space(conn[1])
         = conn[1].sendsize - (app.sendpos - app.ackpos)
    /\ U32(conn[2].recvpos - conn[2].lastpos) = app.recvpos - app.lastpos
    /\ WakeupNeeded(conn[2])
         <=> (app.recvpos - app.lastpos > conn[2].bufsize \div 2)
    /\ app.sendpos - app.recvpos \in 0..conn[2].bufsize

\* sendpos has wrapped and ackpos has not: the window is full across the
\* wrap, and the receiver is past its threshold across the wrap.
C40_Witness ==
  /\ app.sendpos >= Wrap /\ app.ackpos < Wrap
  /\ conn[1].sendpos < conn[1].ackpos
  /\ rpmsg_socket_get_space(conn[1]) = 0
  /\ conn[2].recvpos < conn[2].lastpos
  /\ WakeupNeeded(conn[2])


\* C32: poll setup on a connected socket computes its initial events so
\* that POLLHUP is among them iff the endpoint is gone or unbind is set,
\* POLLOUT iff the send space is above zero, and POLLIN iff the receive
\* buffer holds bytes, and notifies exactly those; on a listener POLLIN is
\* notified iff a connection is queued.
C32_InitialEvents ==
  [][/\ \A i \in 1..NPollWaiters :
          LET c == conn[1]
              fd == c.fds[i]
              fd2 == conn'[1].fds[i]
          IN (c.connected /\ fd2.pc # fd.pc) =>
               /\ fd.pc = "setup" =>
                    fd2.seen = IF ~c.rdev \/ c.unbind THEN {"POLLHUP"} ELSE {}
               /\ fd.pc = "space" =>
                    fd2.seen = fd.seen \cup
                      (IF rpmsg_socket_get_space(c) > 0
                         THEN {"POLLOUT"} ELSE {})
               /\ fd.pc = "buf" =>
                    fd2.seen = fd.seen \cup
                      (IF c.recvbuf # <<>> THEN {"POLLIN"} ELSE {})
               /\ fd.pc = "notify" =>
                    fd2.revents = fd.revents \cup
                      (fd.seen \cap (fd.events \cup {"POLLHUP"}))
     /\ \A i \in 1..NPollWaiters :
          LET fd == srv.fds[i]
              fd2 == srv'.fds[i]
          IN (fd.pc = "setup" /\ fd2.pc = "wait") =>
               fd2.revents = fd.revents \cup
                 (IF srv.queue # <<>> THEN fd.events \cap {"POLLIN"} ELSE {})
    ]_vars

\* A poll on the connected client that found the window full and bytes
\* buffered, about to notify them.
C32_Witness ==
  \E i \in 1..NPollWaiters :
    /\ conn[1].connected
    /\ conn[1].fds[i].pc = "notify"
    /\ conn[1].fds[i].seen = {"POLLIN"}
    /\ rpmsg_socket_get_space(conn[1]) = 0


\* What a waiter that asked for events is ready for on c right now.
ReadyFor(c, events) == PollEventset(c) \cap (events \cup {"POLLHUP"})

\* C39: no poll wakeup is lost: a waiter whose setup is over, on a socket
\* where one of the conditions it waits for holds (bytes buffered, send
\* space above zero, hangup by unbind or endpoint destruction, a
\* connection queued on the listener), has been notified.
C39_NoLostWakeup ==
  /\ \A i \in 1..NPollWaiters :
       LET fd == conn[1].fds[i]
       IN (conn[1].life = "live" /\ fd.pc = "wait"
           /\ ReadyFor(conn[1], fd.events) # {}) => fd.revents # {}
  /\ \A i \in 1..NPollWaiters :
       LET fd == srv.fds[i]
       IN (srv.life = "live" /\ fd.pc = "wait" /\ srv.queue # <<>>
           /\ "POLLIN" \in fd.events) => fd.revents # {}

====
